---- MODULE Spec2Model ----
(***************************************************************************)
(* Model of the Topo language front end (src/1.2): the lexer of lexer.c,   *)
(* the recursive-descent parser of parser.c and the AST constructors and   *)
(* teardown of the AST implementation (stored in parser.h).                *)
(*                                                                         *)
(* A character is a one-character string; a byte >= 0x80 is one of the     *)
(* three class representatives "x80" (0x80..0xBF), "xC3" (0xC0..0xF7) and  *)
(* "xF8" (0xF8..0xFF), which is all the lexer distinguishes.  A C string   *)
(* is the sequence of its characters; the NULL pointer is NullText.        *)
(***************************************************************************)
EXTENDS Integers, Sequences, FiniteSets, TLC

\* ------------------------------------------------------------------ bounds
\* lexer.c:19 sets 4096 and lexer.c:20 sets 128; the model scales both down
\* so that sources of a few dozen characters reach the limits.
MAX_STRING_LENGTH == 8
MAX_IDENTIFIER_LENGTH == 8
\* lexer.c:23
MAX_LOOKAHEAD == 2

\* ------------------------------------------------------------- characters
NUL == "NUL"
NullText == <<"<NULL>">>
Garbage == <<"<GARBAGE>">>

Digits == {"0", "1", "2", "3", "4", "5", "6", "7", "8", "9"}
LowerCase ==
  {"a", "b", "c", "d", "e", "f", "g", "h", "i", "j", "k", "l", "m",
   "n", "o", "p", "q", "r", "s", "t", "u", "v", "w", "x", "y", "z"}
UpperCase ==
  {"A", "B", "C", "D", "E", "F", "G", "H", "I", "J", "K", "L", "M",
   "N", "O", "P", "Q", "R", "S", "T", "U", "V", "W", "X", "Y", "Z"}
HexLetters == {"a", "b", "c", "d", "e", "f", "A", "B", "C", "D", "E", "F"}
ContinuationByte == "x80"
LeadByte == "xC3"
InvalidByte == "xF8"
HighBytes == {ContinuationByte, LeadByte, InvalidByte}

Ascii ==
  << " ", "!", "\"", "#", "$", "%", "&", "'", "(", ")", "*", "+", ",", "-",
     ".", "/", "0", "1", "2", "3", "4", "5", "6", "7", "8", "9", ":", ";",
     "<", "=", ">", "?", "@", "A", "B", "C", "D", "E", "F", "G", "H", "I",
     "J", "K", "L", "M", "N", "O", "P", "Q", "R", "S", "T", "U", "V", "W",
     "X", "Y", "Z", "[", "\\", "]", "^", "_", "x60", "a", "b", "c", "d", "e",
     "f", "g", "h", "i", "j", "k", "l", "m", "n", "o", "p", "q", "r", "s",
     "t", "u", "v", "w", "x", "y", "z", "{", "|", "}", "~" >>

isdigit(c) == c \in Digits
isalpha(c) == c \in LowerCase \cup UpperCase
isalnum(c) == isalpha(c) \/ isdigit(c)
isxdigit(c) == c \in Digits \cup HexLetters

DigitValue(c) ==
  CASE c = "0" -> 0 [] c = "1" -> 1 [] c = "2" -> 2 [] c = "3" -> 3
    [] c = "4" -> 4 [] c = "5" -> 5 [] c = "6" -> 6 [] c = "7" -> 7
    [] c = "8" -> 8 [] c = "9" -> 9
    [] c \in {"a", "A"} -> 10 [] c \in {"b", "B"} -> 11
    [] c \in {"c", "C"} -> 12 [] c \in {"d", "D"} -> 13
    [] c \in {"e", "E"} -> 14 [] c \in {"f", "F"} -> 15
    [] OTHER -> 16

\* The character with byte value v (the classes above for what is not
\* printable ASCII).
ByteChar(v) ==
  IF v = 0 THEN NUL
  ELSE IF v = 9 THEN "\t"
  ELSE IF v = 10 THEN "\n"
  ELSE IF v = 13 THEN "\r"
  ELSE IF v >= 32 /\ v <= 126 THEN Ascii[v - 31]
  ELSE IF v >= 248 THEN InvalidByte
  ELSE IF v >= 192 THEN LeadByte
  ELSE IF v >= 128 THEN ContinuationByte
  ELSE "ctl"

\* strtol(text, NULL, base) on the digits at the front of text; sources of
\* the model stay far below LONG_MAX, where strtol would saturate.
RECURSIVE strtol_digits(_, _, _)
strtol_digits(text, base, acc) ==
  IF text = <<>> \/ DigitValue(Head(text)) >= base THEN acc
  ELSE strtol_digits(Tail(text), base, acc * base + DigitValue(Head(text)))

strtol(text, base) ==
  IF base = 16 /\ Len(text) >= 3 /\ text[1] = "0" /\ text[2] \in {"x", "X"}
               /\ isxdigit(text[3])
  THEN strtol_digits(SubSeq(text, 3, Len(text)), 16, 0)
  ELSE strtol_digits(text, base, 0)

\* The C string stored in a buffer: the characters in front of the first NUL.
RECURSIVE CStr(_)
CStr(buf) ==
  IF buf = <<>> \/ Head(buf) = NUL THEN <<>>
  ELSE <<Head(buf)>> \o CStr(Tail(buf))

\* ---------------------------------------------------------------- tables
keyword_table ==
  << [keyword |-> <<"v", "a", "r">>, type |-> "TOKEN_VAR"],
     [keyword |-> <<"c", "o", "n", "s", "t">>, type |-> "TOKEN_CONST"],
     [keyword |-> <<"f", "u", "n", "c">>, type |-> "TOKEN_FUNC"],
     [keyword |-> <<"i", "f">>, type |-> "TOKEN_IF"],
     [keyword |-> <<"e", "l", "s", "e">>, type |-> "TOKEN_ELSE"],
     [keyword |-> <<"e", "l", "i", "f">>, type |-> "TOKEN_ELIF"],
     [keyword |-> <<"w", "h", "i", "l", "e">>, type |-> "TOKEN_WHILE"],
     [keyword |-> <<"f", "o", "r">>, type |-> "TOKEN_FOR"],
     [keyword |-> <<"i", "n">>, type |-> "TOKEN_IN"],
     [keyword |-> <<"r", "e", "t", "u", "r", "n">>, type |-> "TOKEN_RETURN"],
     [keyword |-> <<"b", "r", "e", "a", "k">>, type |-> "TOKEN_BREAK"],
     [keyword |-> <<"c", "o", "n", "t", "i", "n", "u", "e">>, type |-> "TOKEN_CONTINUE"],
     [keyword |-> <<"t", "r", "u", "e">>, type |-> "TOKEN_TRUE"],
     [keyword |-> <<"f", "a", "l", "s", "e">>, type |-> "TOKEN_FALSE"],
     [keyword |-> <<"n", "u", "l", "l">>, type |-> "TOKEN_NULL"],
     [keyword |-> <<"a", "n", "d">>, type |-> "TOKEN_AND"],
     [keyword |-> <<"o", "r">>, type |-> "TOKEN_OR"],
     [keyword |-> <<"n", "o", "t">>, type |-> "TOKEN_NOT"],
     [keyword |-> <<"c", "o", "n", "s", "o", "l", "e">>, type |-> "TOKEN_CONSOLE"],
     [keyword |-> <<"i", "n", "p", "u", "t">>, type |-> "TOKEN_INPUT"],
     [keyword |-> <<"l", "e", "n">>, type |-> "TOKEN_LEN"],
     [keyword |-> <<"a", "p", "p", "e", "n", "d">>, type |-> "TOKEN_APPEND"],
     [keyword |-> <<"p", "o", "p">>, type |-> "TOKEN_POP"],
     [keyword |-> <<"k", "e", "y", "s">>, type |-> "TOKEN_KEYS"],
     [keyword |-> <<"v", "a", "l", "u", "e", "s">>, type |-> "TOKEN_VALUES"],
     [keyword |-> <<"t", "y", "p", "e">>, type |-> "TOKEN_TYPE"],
     [keyword |-> <<"i", "n", "t">>, type |-> "TOKEN_INT"],
     [keyword |-> <<"f", "l", "o", "a", "t">>, type |-> "TOKEN_FLOAT_FUNC"],
     [keyword |-> <<"s", "t", "r">>, type |-> "TOKEN_STR"],
     [keyword |-> <<"b", "o", "o", "l">>, type |-> "TOKEN_BOOL"],
     [keyword |-> <<"a", "r", "r", "a", "y">>, type |-> "TOKEN_ARRAY"],
     [keyword |-> <<"d", "i", "c", "t">>, type |-> "TOKEN_DICT"],
     [keyword |-> <<"r", "a", "n", "g", "e">>, type |-> "TOKEN_RANGE"],
     [keyword |-> <<"f", "r", "o", "m">>, type |-> "TOKEN_FROM"],
     [keyword |-> <<"u", "s", "i", "n", "g">>, type |-> "TOKEN_USING"] >>

operator_table ==
  << <<"=", "=">>, <<"!", "=">>, <<"<", "=">>, <<">", "=">>, <<"&", "&">>,
     <<"|", "|">>, <<"+", "=">>, <<"-", "=">>, <<"*", "=">>, <<"/", "=">>,
     <<"%", "=">>,
     <<"+">>, <<"-">>, <<"*">>, <<"/">>, <<"%">>, <<"=">>, <<"<">>, <<">">>,
     <<"!">>, <<"&">>, <<"|">>, <<"^">>, <<"~">> >>

punctuation_chars == {"(", ")", "{", "}", "[", "]", ".", ",", ";", ":"}

\* ------------------------------------------------------------------ state
VARIABLES
  source,       \* the source text handed to the run
  start,        \* the tokens the caller of parse_program loads first
  loaded,       \* the tokens it has loaded
  entry,        \* "parse_source": parse_source as written;
                \* "primed": the caller loads the first token with lexer_skip
                \*   before parser_create and then follows parse_source's steps;
                \* "lexer": a client that calls the lexer's functions itself
  stale_read,   \* what a read of freed token text yields in this build
  double_free,  \* what a second free of a block does in this build
  pc,           \* position of the run
  lexer,        \* Lexer
  parser,       \* Parser
  nodes,        \* the heap of AST nodes: node p is nodes[p], NULL is 0
  trace,        \* what an observer of the run sees (stderr, faults)
  statements,   \* parse_program's list head
  last_stmt,    \* parse_program's list tail
  ast,          \* parse_source's result
  delivered,    \* lexer client: the tokens lexer_next and lexer_skip delivered
  peek,         \* lexer client: its latest call of lexer_peek_token
  calls         \* lexer client: the calls it has made

vars == <<source, start, loaded, entry, stale_read, double_free, pc, lexer,
          parser, nodes, trace, statements, last_stmt, ast, delivered, peek,
          calls>>

\* ------------------------------------------------------------------ lexer
\* Token (lexer.c:58-66).  ptr is the heap block of value: 0 for NULL.
\* float_val holds the literal's text, which stands for atof of that text.
Token(type, value, ptr, line, column, length) ==
  [type |-> type, value |-> value, ptr |-> ptr, int_val |-> 0,
   float_val |-> <<>>, line |-> line, column |-> column, length |-> length]

\* a Token of zeroed memory: calloc leaves type 0 (TOKEN_VAR) and NULL text
ZeroToken == Token("TOKEN_VAR", NullText, 0, 0, 0, 0)

\* an array of n elements, each x (calloc, lexer.c:226)
RECURSIVE Filled(_, _)
Filled(n, x) == IF n = 0 THEN <<>> ELSE Append(Filled(n - 1, x), x)

lexer_create(src) ==
  [source |-> src, position |-> 0, line |-> 1, column |-> 1,
   start_position |-> 0, start_line |-> 1, start_column |-> 1,
   current |-> Token("TOKEN_EOF", NullText, 0, 1, 1, 0),
   lookahead |-> Filled(MAX_LOOKAHEAD, ZeroToken),
   lookahead_pos |-> 0,
   has_error |-> FALSE, error_msg |-> "",
   string_buffer |-> Filled(MAX_STRING_LENGTH, NUL),
   string_buffer_pos |-> 0,
   \* the heap of token texts: blocks handed out, blocks live, latest text
   nalloc |-> 0, live |-> {}, last_text |-> NullText, freed_twice |-> FALSE,
   \* whether a character behind the terminator of the source has been read
   overread |-> FALSE]

lexer_error(L, msg) == [L EXCEPT !.has_error = TRUE, !.error_msg = msg]

lexer_peek_at(L, offset) ==
  LET i == L.position + offset IN
  IF i < 0 THEN NUL
  ELSE IF i < Len(L.source) THEN L.source[i + 1]
  ELSE NUL

lexer_peek(L) == lexer_peek_at(L, 0)

\* the lexer after lexer_peek_at(lexer, offset): the function reads
\* source[position + offset] without looking for the terminator
\* (lexer.c:296), so a read behind it is recorded
peeked(L, offset) ==
  IF L.position + offset > Len(L.source)
  THEN [L EXCEPT !.overread = TRUE]
  ELSE L

\* the lexer after the test lexer_peek_at(lexer, 0) == a &&
\* lexer_peek_at(lexer, 1) == b: the second character is read only behind a
\* first one that is a
peeked_behind(L, a) ==
  IF lexer_peek_at(L, 0) = a THEN peeked(L, 1) ELSE L

\* lexer_advance, had it not stopped at the terminator
lexer_advance_past_terminator(L) ==
  LET c == lexer_peek(L) IN
  [L EXCEPT !.position = @ + 1,
            !.line = IF c = "\n" THEN @ + 1 ELSE @,
            !.column = IF c = "\n" THEN 1 ELSE @ + 1]

\* lexer_advance: the lexer after the call; the character it returns is
\* lexer_peek of the lexer before the call.
lexer_advance(L) ==
  LET c == lexer_peek(L) IN
  IF c = NUL THEN L
  ELSE [L EXCEPT !.position = @ + 1,
                 !.line = IF c = "\n" THEN @ + 1 ELSE @,
                 !.column = IF c = "\n" THEN 1 ELSE @ + 1]

\* lexer_skip_whitespace, had it skipped spaces only
RECURSIVE lexer_skip_spaces(_)
lexer_skip_spaces(L) ==
  IF lexer_peek(L) = " "
  THEN lexer_skip_spaces(lexer_advance(L))
  ELSE L

RECURSIVE lexer_skip_whitespace(_)
lexer_skip_whitespace(L) ==
  IF lexer_peek(L) \in {" ", "\t", "\r"}
  THEN lexer_skip_whitespace(lexer_advance(L))
  ELSE L

lexer_start_token(L) ==
  [L EXCEPT !.start_position = L.position, !.start_line = L.line,
            !.start_column = L.column]

\* free(p) of a token text
FreeText(L, ptr) ==
  IF ptr = 0 THEN L
  ELSE IF ptr \in L.live THEN [L EXCEPT !.live = @ \ {ptr}]
  ELSE [L EXCEPT !.freed_twice = TRUE]

\* lexer_make_token: value is NullText or the text strdup copies
lexer_make_token(L, type, value) ==
  IF value = NullText
  THEN [tok |-> Token(type, NullText, 0, L.start_line, L.start_column,
                      L.position - L.start_position),
        lexer |-> L]
  ELSE [tok |-> Token(type, value, L.nalloc + 1, L.start_line, L.start_column,
                      L.position - L.start_position),
        lexer |-> [L EXCEPT !.nalloc = @ + 1, !.live = @ \cup {L.nalloc + 1},
                            !.last_text = value]]

ErrorToken(L, msg) ==
  LET r == lexer_make_token(L, "TOKEN_ERROR", msg) IN
  [tok |-> [r.tok EXCEPT !.length = 0], lexer |-> r.lexer]

\* lexer_make_number_token, had it handed strtol the 0b prefix as well
lexer_make_number_token_with_prefix(L, text, is_float, is_hex, is_binary) ==
  LET r == lexer_make_token(L, IF is_float THEN "TOKEN_NUMBER_FLOAT"
                                           ELSE "TOKEN_NUMBER_INT", text)
      v == IF is_float THEN 0
           ELSE IF is_hex THEN strtol(text, 16)
           ELSE IF is_binary THEN strtol(text, 2)
           ELSE strtol(text, 10)
  IN [tok |-> [r.tok EXCEPT !.int_val = v,
                             !.float_val = IF is_float THEN text ELSE <<>>],
      lexer |-> r.lexer]

lexer_make_number_token(L, text, is_float, is_hex, is_binary) ==
  LET r == lexer_make_token(L, IF is_float THEN "TOKEN_NUMBER_FLOAT"
                                           ELSE "TOKEN_NUMBER_INT", text)
      v == IF is_float THEN 0
           ELSE IF is_hex THEN strtol(text, 16)
           ELSE IF is_binary THEN strtol(SubSeq(text, 3, Len(text)), 2)
           ELSE strtol(text, 10)
  IN [tok |-> [r.tok EXCEPT !.int_val = v,
                             !.float_val = IF is_float THEN text ELSE <<>>],
      lexer |-> r.lexer]

RECURSIVE line_comment_loop(_)
line_comment_loop(L) ==
  IF lexer_peek(L) # "\n" /\ lexer_peek(L) # NUL
  THEN line_comment_loop(lexer_advance(L))
  ELSE L

lexer_skip_line_comment(L) ==
  IF lexer_peek_at(L, 0) = "/" /\ lexer_peek_at(L, 1) = "/"
  THEN [skipped |-> TRUE,
        lexer |-> line_comment_loop(
                    lexer_advance(lexer_advance(peeked_behind(L, "/"))))]
  ELSE [skipped |-> FALSE, lexer |-> peeked_behind(L, "/")]

RECURSIVE block_comment_loop(_, _)
block_comment_loop(L0, depth) ==
  LET round(L) ==
        IF lexer_peek_at(L, 0) = "/" /\ lexer_peek_at(L, 1) = "*"
        THEN block_comment_loop(lexer_advance(lexer_advance(L)), depth + 1)
        ELSE IF lexer_peek_at(L, 0) = "*" /\ lexer_peek_at(L, 1) = "/"
        THEN block_comment_loop(lexer_advance(lexer_advance(L)), depth - 1)
        ELSE IF lexer_peek(L) = "\n"
        THEN block_comment_loop(
               lexer_advance([L EXCEPT !.line = @ + 1, !.column = 0]), depth)
        ELSE block_comment_loop(lexer_advance(L), depth)
  IN IF depth > 0 /\ lexer_peek(L0) # NUL
     THEN round(peeked_behind(peeked_behind(L0, "/"), "*"))
     ELSE IF depth > 0 THEN lexer_error(L0, "Unclosed multi-line comment")
     ELSE L0

\* lexer_skip_block_comment, had it kept no depth: the first */ closes
RECURSIVE flat_comment_loop(_)
flat_comment_loop(L0) ==
  LET L == peeked_behind(L0, "*") IN
  IF lexer_peek(L) = NUL THEN lexer_error(L, "Unclosed multi-line comment")
  ELSE IF lexer_peek_at(L, 0) = "*" /\ lexer_peek_at(L, 1) = "/"
  THEN lexer_advance(lexer_advance(L))
  ELSE LET L1 == IF lexer_peek(L) = "\n"
                 THEN [L EXCEPT !.line = @ + 1, !.column = 0]
                 ELSE L
       IN flat_comment_loop(lexer_advance(L1))

lexer_skip_flat_comment(L) ==
  IF lexer_peek_at(L, 0) = "/" /\ lexer_peek_at(L, 1) = "*"
  THEN [skipped |-> TRUE,
        lexer |-> flat_comment_loop(
                    lexer_advance(lexer_advance(peeked_behind(L, "/"))))]
  ELSE [skipped |-> FALSE, lexer |-> peeked_behind(L, "/")]

lexer_skip_block_comment(L) ==
  IF lexer_peek_at(L, 0) = "/" /\ lexer_peek_at(L, 1) = "*"
  THEN [skipped |-> TRUE,
        lexer |-> block_comment_loop(
                    lexer_advance(lexer_advance(peeked_behind(L, "/"))), 1)]
  ELSE [skipped |-> FALSE, lexer |-> peeked_behind(L, "/")]

\* the scanning loop of lexer_read_number (lexer.c:442-477)
RECURSIVE number_loop(_, _, _, _, _)
number_loop(L, is_float, has_exponent, is_hex, is_binary) ==
  LET c == lexer_peek(L)
      stop == [lexer |-> L, is_float |-> is_float]
  IN
  IF is_hex
  THEN IF ~isxdigit(c) THEN stop
       ELSE number_loop(lexer_advance(L), is_float, has_exponent, is_hex, is_binary)
  ELSE IF is_binary
  THEN IF c # "0" /\ c # "1" THEN stop
       ELSE number_loop(lexer_advance(L), is_float, has_exponent, is_hex, is_binary)
  ELSE IF c = "."
  THEN IF is_float \/ has_exponent
       THEN [lexer |-> lexer_error(L, "Invalid number format"),
             is_float |-> is_float]
       ELSE number_loop(lexer_advance(L), TRUE, has_exponent, is_hex, is_binary)
  ELSE IF c = "e" \/ c = "E"
  THEN IF has_exponent
       THEN [lexer |-> lexer_error(L, "Invalid number format"),
             is_float |-> is_float]
       ELSE IF lexer_peek_at(L, 1) \in {"+", "-"}
       THEN number_loop(lexer_advance(lexer_advance(peeked(L, 1))),
                        TRUE, TRUE, is_hex, is_binary)
       ELSE number_loop(lexer_advance(peeked(L, 1)),
                        TRUE, TRUE, is_hex, is_binary)
  ELSE IF ~isdigit(c) THEN stop
  ELSE number_loop(lexer_advance(L), is_float, has_exponent, is_hex, is_binary)

lexer_read_number(L) ==
  LET L0 == peeked_behind(lexer_start_token(L), "0")
      next == lexer_peek_at(L0, 1)
      is_hex == lexer_peek(L0) = "0" /\ next \in {"x", "X"}
      is_binary == lexer_peek(L0) = "0" /\ next \in {"b", "B"}
      L1 == IF is_hex \/ is_binary THEN lexer_advance(lexer_advance(L0)) ELSE L0
      r == number_loop(L1, FALSE, FALSE, is_hex, is_binary)
      text == SubSeq(L.source, r.lexer.start_position + 1, r.lexer.position)
  IN lexer_make_number_token(r.lexer, text, r.is_float, is_hex, is_binary)

\* \uXXXX: up to four lexer_advance calls, stopping behind the first
\* character that is no hex digit (lexer.c:526-533)
RECURSIVE unicode_escape_loop(_, _)
unicode_escape_loop(L, i) ==
  IF i = 4 THEN L
  ELSE IF ~isxdigit(lexer_peek(L))
  THEN lexer_error(lexer_advance(L), "Invalid Unicode escape")
  ELSE unicode_escape_loop(lexer_advance(L), i + 1)

\* the switch of lexer_read_string on the character behind a backslash
\* (lexer.c:508-541); L stands behind that character
string_escape(L, next) ==
  CASE next = "n" -> [c |-> "\n", lexer |-> L]
    [] next = "t" -> [c |-> "\t", lexer |-> L]
    [] next = "r" -> [c |-> "\r", lexer |-> L]
    [] next = "\"" -> [c |-> "\"", lexer |-> L]
    [] next = "'" -> [c |-> "'", lexer |-> L]
    [] next = "\\" -> [c |-> "\\", lexer |-> L]
    [] next = "0" -> [c |-> NUL, lexer |-> L]
    [] next = "x" ->
         LET h0 == lexer_peek(L)
             L1 == lexer_advance(L)
             h1 == lexer_peek(L1)
             hex == (IF h0 = NUL THEN <<>> ELSE <<h0>>)
                    \o (IF h0 = NUL \/ h1 = NUL THEN <<>> ELSE <<h1>>)
         IN [c |-> ByteChar(strtol(hex, 16)), lexer |-> lexer_advance(L1)]
    [] next = "u" -> [c |-> "?", lexer |-> unicode_escape_loop(L, 0)]
    [] OTHER -> [c |-> "\\",
                 lexer |-> lexer_error(L, "Unknown escape sequence")]

RECURSIVE string_loop(_, _)
string_loop(L, quote) ==
  IF lexer_peek(L) # quote /\ lexer_peek(L) # NUL
  THEN LET c0 == lexer_peek(L)
           L1 == lexer_advance(L)
           e == IF c0 = "\\"
                THEN string_escape(lexer_advance(L1), lexer_peek(L1))
                ELSE [c |-> c0, lexer |-> L1]
       IN IF e.lexer.string_buffer_pos >= MAX_STRING_LENGTH - 1
          THEN lexer_error(e.lexer, "String too long")
          ELSE string_loop(
                 [e.lexer EXCEPT
                    !.string_buffer[e.lexer.string_buffer_pos + 1] = e.c,
                    !.string_buffer_pos = @ + 1],
                 quote)
  ELSE L

\* lexer_read_string without the reset of the string-assembly index
lexer_read_string_without_reset(L) ==
  LET L0 == lexer_start_token(L)
      quote == lexer_peek(L0)
      L2 == string_loop(lexer_advance(L0), quote)
  IN IF lexer_peek(L2) # quote
     THEN ErrorToken(lexer_error(L2, "Unclosed string"),
                     <<"U", "n", "c", "l", "o", "s", "e", "d", " ",
                       "s", "t", "r", "i", "n", "g">>)
     ELSE LET L3 == lexer_advance(L2)
              L4 == [L3 EXCEPT !.string_buffer[L3.string_buffer_pos + 1] = NUL]
          IN lexer_make_token(L4, "TOKEN_STRING", CStr(L4.string_buffer))

lexer_read_string(L) ==
  LET L0 == lexer_start_token(L)
      quote == lexer_peek(L0)
      L1 == [lexer_advance(L0) EXCEPT !.string_buffer_pos = 0]
      L2 == string_loop(L1, quote)
  IN IF lexer_peek(L2) # quote
     THEN ErrorToken(lexer_error(L2, "Unclosed string"),
                     <<"U", "n", "c", "l", "o", "s", "e", "d", " ",
                       "s", "t", "r", "i", "n", "g">>)
     ELSE LET L3 == lexer_advance(L2)
              L4 == [L3 EXCEPT !.string_buffer[L3.string_buffer_pos + 1] = NUL]
          IN lexer_make_token(L4, "TOKEN_STRING", CStr(L4.string_buffer))

utf8_char_length(c) ==
  IF c = LeadByte THEN 2 ELSE 1

is_identifier_start(c) ==
  \/ isalpha(c) \/ c = "_"
  \/ c \in {LeadByte, InvalidByte} /\ utf8_char_length(c) >= 2

is_identifier_char(c) ==
  isalnum(c) \/ c = "_" \/ c \in HighBytes

RECURSIVE identifier_loop(_)
identifier_loop(L) ==
  IF is_identifier_char(lexer_peek(L))
  THEN IF L.position - L.start_position >= MAX_IDENTIFIER_LENGTH
       THEN lexer_error(L, "Identifier too long")
       ELSE identifier_loop(lexer_advance(L))
  ELSE L

lexer_read_identifier(L) ==
  LET L1 == identifier_loop(lexer_advance(lexer_start_token(L)))
      text == SubSeq(L1.source, L1.start_position + 1, L1.position)
      hits == {i \in 1..Len(keyword_table) : keyword_table[i].keyword = text}
  IN IF hits # {}
     THEN lexer_make_token(L1, keyword_table[CHOOSE i \in hits : TRUE].type,
                           NullText)
     ELSE lexer_make_token(L1, "TOKEN_IDENTIFIER", text)

\* whether operator op stands at the cursor (lexer.c:620-625)
OperatorMatches(L, op) ==
  \A j \in 1..Len(op) : lexer_peek_at(L, j - 1) = op[j]

\* the number of characters the inner loop of lexer_read_operator compares
\* with op, from the j-th on: it leaves at the first that differs
\* (lexer.c:620-625)
RECURSIVE Compared(_, _, _)
Compared(L, op, j) ==
  IF j > Len(op) THEN Len(op)
  ELSE IF lexer_peek_at(L, j - 1) # op[j] THEN j
  ELSE Compared(L, op, j + 1)

\* the lexer after the outer loop of lexer_read_operator has compared every
\* table entry with the text at the cursor (lexer.c:615): the farthest
\* character read is the last one compared with some entry
operators_compared(L) ==
  LET greatest(counts) == CHOOSE n \in counts : \A k \in counts : k <= n
  IN peeked(L, greatest({Compared(L, operator_table[i], 1) :
                           i \in 1..Len(operator_table)}) - 1)

RECURSIVE advance_times(_, _)
advance_times(L, n) ==
  IF n = 0 THEN L ELSE advance_times(lexer_advance(L), n - 1)

\* lexer_read_operator, had it kept the shortest matching entry
lexer_read_operator_shortest(L) ==
  LET L0 == lexer_start_token(L)
      matches == {i \in 1..Len(operator_table) :
                    OperatorMatches(L0, operator_table[i])}
      best == CHOOSE i \in matches :
                \A k \in matches :
                  /\ Len(operator_table[i]) <= Len(operator_table[k])
                  /\ (Len(operator_table[k]) = Len(operator_table[i]) => i <= k)
  IN IF matches # {}
     THEN lexer_make_token(
            advance_times(operators_compared(L0), Len(operator_table[best])),
            "TOKEN_OPERATOR", operator_table[best])
     ELSE ErrorToken(lexer_advance(
                       lexer_error(operators_compared(L0), "Unknown operator")),
                     <<"U", "n", "k", "n", "o", "w", "n", " ",
                       "o", "p", "e", "r", "a", "t", "o", "r">>)

lexer_read_operator(L) ==
  LET L0 == lexer_start_token(L)
      matches == {i \in 1..Len(operator_table) :
                    OperatorMatches(L0, operator_table[i])}
      \* the first entry that no other matching entry is longer than
      best == CHOOSE i \in matches :
                \A k \in matches :
                  /\ Len(operator_table[k]) <= Len(operator_table[i])
                  /\ (Len(operator_table[k]) = Len(operator_table[i]) => i <= k)
  IN IF matches # {}
     THEN lexer_make_token(
            advance_times(operators_compared(L0), Len(operator_table[best])),
            "TOKEN_OPERATOR", operator_table[best])
     ELSE ErrorToken(lexer_advance(
                       lexer_error(operators_compared(L0), "Unknown operator")),
                     <<"U", "n", "k", "n", "o", "w", "n", " ",
                       "o", "p", "e", "r", "a", "t", "o", "r">>)

\* the loop of lexer_next that skips whitespace and comments (lexer.c:673-680)
RECURSIVE skip_trivia(_)
skip_trivia(L) ==
  LET block(bc) == IF bc.skipped THEN skip_trivia(bc.lexer) ELSE bc.lexer
      line(lc) == IF lc.skipped THEN skip_trivia(lc.lexer)
                  ELSE block(lexer_skip_block_comment(lc.lexer))
  IN line(lexer_skip_line_comment(lexer_skip_whitespace(L)))

\* lexer_next with an empty lookahead queue (lexer.c:672-735)
lexer_scan(L) ==
  LET L1 == peeked_behind(skip_trivia(L), ".")
      c == lexer_peek(L1)
  IN IF c = NUL THEN lexer_make_token(L1, "TOKEN_EOF", NullText)
     ELSE IF c = "\n"
     THEN lexer_make_token(lexer_advance(lexer_start_token(L1)),
                           "TOKEN_NEWLINE", <<"\n">>)
     ELSE IF isdigit(c) \/ (c = "." /\ isdigit(lexer_peek_at(L1, 1)))
     THEN lexer_read_number(L1)
     ELSE IF c = "\"" \/ c = "'" THEN lexer_read_string(L1)
     ELSE IF is_identifier_start(c) THEN lexer_read_identifier(L1)
     ELSE IF \E i \in 1..Len(operator_table) : operator_table[i][1] = c
     THEN lexer_read_operator(L1)
     ELSE IF c \in punctuation_chars
     THEN lexer_make_token(lexer_advance(lexer_start_token(L1)),
                           "TOKEN_PUNCTUATION", <<c>>)
     ELSE ErrorToken(
            lexer_advance(lexer_error(lexer_start_token(L1), "Unknown character")),
            <<"U", "n", "k", "n", "o", "w", "n", " ",
              "c", "h", "a", "r", "a", "c", "t", "e", "r">>)

\* the queue after its front left it: the slots move down, the last slot's
\* text is freed and cleared although the slot below now holds the same
\* pointer (lexer.c:657-667, 774-784)
ShiftLookahead(L) ==
  LET last == L.lookahead[MAX_LOOKAHEAD]
      shifted == Append(Tail(L.lookahead),
                        [last EXCEPT !.value = NullText, !.ptr = 0])
  IN [FreeText(L, last.ptr) EXCEPT !.lookahead = shifted,
                                   !.lookahead_pos = @ - 1]

lexer_next(L) ==
  IF L.lookahead_pos > 0
  THEN [tok |-> L.lookahead[1], lexer |-> ShiftLookahead(L)]
  ELSE lexer_scan(L)

lexer_skip(L) ==
  IF L.lookahead_pos > 0
  THEN ShiftLookahead(FreeText(L, L.lookahead[1].ptr))
  ELSE LET current(r) == [r.lexer EXCEPT !.current = r.tok]
       IN current(lexer_next(FreeText(L, L.current.ptr)))

lexer_current(L) ==
  IF L.lookahead_pos > 0 THEN L.lookahead[1] ELSE L.current

\* -------------------------------------------------------------------- AST
\* ASTNode (parser.c:1092-1225).  The payload fields carry the names of the
\* union members; line and column are left out.  freed counts the free()
\* calls the node has received.
Node(type) ==
  [type |-> type, name |-> NullText, next |-> 0,
   value |-> 0, is_const |-> FALSE,
   condition |-> 0, then_branch |-> 0, else_branch |-> 0, elif_branches |-> 0,
   iterable |-> 0, body |-> 0,
   statements |-> 0,
   imports |-> <<>>, import_count |-> 0, import_all |-> FALSE,
   op |-> NullText, left |-> 0, right |-> 0, operand |-> 0,
   data_type |-> "", int_val |-> 0, float_val |-> <<>>,
   string_val |-> NullText, bool_val |-> FALSE,
   identifier |-> NullText,
   target |-> 0,
   callee |-> 0, arguments |-> 0, arg_count |-> 0,
   elements |-> 0, element_count |-> 0,
   keys |-> <<>>, values |-> 0, pair_count |-> 0,
   object |-> 0, member |-> NullText,
   freed |-> 0]

\* The memory the parser works on: m.lexer, m.parser, m.nodes and m.trace
\* are the values of the variables of those names.
\* calloc of one node
NewNode(m, node) ==
  [node |-> Len(m.nodes) + 1, m |-> [m EXCEPT !.nodes = Append(@, node)]]

\* What strdup(tok.value) copies when tok is a copy of a token whose text the
\* lexer may have freed since: reading a freed block is undefined, and the
\* build decides whether the old bytes, the bytes of the block's next user
\* or neither are read.
ReadText(m, tok) ==
  IF tok.ptr = 0 THEN NullText
  ELSE IF tok.ptr \in m.lexer.live THEN tok.value
  ELSE IF stale_read = "intact" THEN tok.value
  ELSE IF stale_read = "reused" THEN m.lexer.last_text
  ELSE Garbage

NoteRead(m, tok) ==
  IF tok.ptr # 0 /\ tok.ptr \notin m.lexer.live
  THEN [m EXCEPT !.trace.stale_reads = TRUE]
  ELSE m

create_program_node(m, stmts) ==
  NewNode(m, [Node("NODE_PROGRAM") EXCEPT !.statements = stmts])

create_block_node(m, stmts) ==
  NewNode(m, [Node("NODE_BLOCK") EXCEPT !.statements = stmts])

create_var_decl_node(m, name_token, value, is_const) ==
  NewNode(NoteRead(m, name_token),
          [Node(IF is_const THEN "NODE_CONST_DECL" ELSE "NODE_VAR_DECL") EXCEPT
             !.name = ReadText(m, name_token), !.value = value,
             !.is_const = is_const, !.data_type = "TYPE_ANY"])

create_if_node(m, condition, then_branch, else_branch) ==
  NewNode(m, [Node("NODE_IF_STMT") EXCEPT
                !.condition = condition, !.then_branch = then_branch,
                !.else_branch = else_branch, !.elif_branches = 0])

create_elif_node(m, condition, then_branch) ==
  NewNode(m, [Node("NODE_ELIF_STMT") EXCEPT
                !.condition = condition, !.then_branch = then_branch])

create_while_node(m, condition, body) ==
  NewNode(m, [Node("NODE_WHILE_STMT") EXCEPT
                !.condition = condition, !.then_branch = body])

create_for_node(m, iterator_token, iterable, body) ==
  NewNode(NoteRead(m, iterator_token),
          [Node("NODE_FOR_STMT") EXCEPT
             !.name = ReadText(m, iterator_token), !.iterable = iterable,
             !.body = body])

create_return_node(m, value) ==
  NewNode(m, [Node("NODE_RETURN_STMT") EXCEPT !.value = value])

create_break_node(m) == NewNode(m, Node("NODE_BREAK_STMT"))

create_continue_node(m) == NewNode(m, Node("NODE_CONTINUE_STMT"))

create_expr_stmt_node(m, expr) ==
  NewNode(m, [Node("NODE_EXPR_STMT") EXCEPT !.left = expr])

create_from_import_node(m, module_token, imports, import_count, import_all) ==
  NewNode(NoteRead(m, module_token),
          [Node("NODE_FROM_IMPORT") EXCEPT
             !.name = ReadText(m, module_token), !.imports = imports,
             !.import_count = import_count, !.import_all = import_all])

\* op_token is the token whose text the caller's op pointer points to
create_binary_expr_node(m, op_token, left, right) ==
  NewNode(NoteRead(m, op_token),
          [Node("NODE_BINARY_EXPR") EXCEPT
             !.op = ReadText(m, op_token), !.left = left, !.right = right])

\* op is a string literal of parser.c
create_unary_expr_node(m, op, operand) ==
  NewNode(m, [Node("NODE_UNARY_EXPR") EXCEPT !.op = op, !.operand = operand])

create_literal_node_int(m, value) ==
  NewNode(m, [Node("NODE_LITERAL") EXCEPT
                !.int_val = value, !.data_type = "TYPE_INT"])

create_literal_node_float(m, value) ==
  NewNode(m, [Node("NODE_LITERAL") EXCEPT
                !.float_val = value, !.data_type = "TYPE_FLOAT"])

create_literal_node_string(m, token) ==
  NewNode(NoteRead(m, token),
          [Node("NODE_LITERAL") EXCEPT
             !.string_val = ReadText(m, token), !.data_type = "TYPE_STRING"])

create_literal_node_bool(m, value) ==
  NewNode(m, [Node("NODE_LITERAL") EXCEPT
                !.bool_val = value, !.data_type = "TYPE_BOOL"])

create_literal_node_null(m) ==
  NewNode(m, [Node("NODE_LITERAL") EXCEPT !.data_type = "TYPE_NULL"])

create_identifier_node(m, token) ==
  NewNode(NoteRead(m, token),
          [Node("NODE_IDENTIFIER") EXCEPT !.identifier = ReadText(m, token)])

create_assignment_node(m, target, value) ==
  NewNode(m, [Node("NODE_ASSIGNMENT") EXCEPT
                !.target = target, !.value = value])

create_call_expr_node(m, callee, arguments, arg_count) ==
  NewNode(m, [Node("NODE_CALL_EXPR") EXCEPT
                !.callee = callee, !.arguments = arguments,
                !.arg_count = arg_count])

create_array_literal_node(m, elements, element_count) ==
  NewNode(m, [Node("NODE_ARRAY_LITERAL") EXCEPT
                !.elements = elements, !.element_count = element_count])

create_dict_literal_node(m, keys, values, pair_count) ==
  NewNode(m, [Node("NODE_DICT_LITERAL") EXCEPT
                !.keys = keys, !.values = values, !.pair_count = pair_count])

create_member_access_node(m, object, member_token) ==
  NewNode(NoteRead(m, member_token),
          [Node("NODE_MEMBER_ACCESS") EXCEPT
             !.object = object, !.member = ReadText(m, member_token)])

add_next_statement(m, current, next) ==
  IF current = 0 \/ next = 0 THEN m
  ELSE [m EXCEPT !.nodes[current].next = next]

\* free_ast_node on the node heap H.  A node that is freed again, or read
\* after its free, is undefined behaviour: the walk goes on over the old
\* contents and the count in freed records it.
RECURSIVE free_ast_node(_, _), free_list(_, _)
\* the while loops of free_ast_node over a statement, argument, element or
\* value list
free_list(H, p) ==
  IF p = 0 THEN H
  ELSE free_list(free_ast_node(H, p), H[p].next)

free_ast_node(H, p) ==
  IF p = 0 THEN H
  ELSE
    LET n == H[p]
        t == n.type
        H1 ==
          IF t \in {"NODE_PROGRAM", "NODE_BLOCK"} THEN free_list(H, n.statements)
          ELSE IF t \in {"NODE_VAR_DECL", "NODE_CONST_DECL"}
          THEN free_ast_node(H, n.value)
          ELSE IF t = "NODE_IF_STMT"
          THEN free_ast_node(
                 free_ast_node(
                   free_ast_node(free_ast_node(H, n.condition), n.then_branch),
                   n.else_branch),
                 n.elif_branches)
          ELSE IF t \in {"NODE_ELIF_STMT", "NODE_WHILE_STMT"}
          THEN free_ast_node(free_ast_node(H, n.condition), n.then_branch)
          ELSE IF t = "NODE_FOR_STMT"
          THEN free_ast_node(free_ast_node(H, n.iterable), n.body)
          ELSE IF t = "NODE_RETURN_STMT" THEN free_ast_node(H, n.value)
          ELSE IF t = "NODE_EXPR_STMT" THEN free_ast_node(H, n.left)
          ELSE IF t = "NODE_BINARY_EXPR"
          THEN free_ast_node(free_ast_node(H, n.left), n.right)
          ELSE IF t = "NODE_UNARY_EXPR" THEN free_ast_node(H, n.operand)
          ELSE IF t = "NODE_ASSIGNMENT"
          THEN free_ast_node(free_ast_node(H, n.target), n.value)
          ELSE IF t = "NODE_CALL_EXPR"
          THEN free_list(free_ast_node(H, n.callee), n.arguments)
          ELSE IF t = "NODE_ARRAY_LITERAL" THEN free_list(H, n.elements)
          ELSE IF t = "NODE_DICT_LITERAL" THEN free_list(H, n.values)
          ELSE IF t = "NODE_MEMBER_ACCESS" THEN free_ast_node(H, n.object)
          ELSE H
        H2 == free_ast_node(H1, n.next)
    IN [H2 EXCEPT ![p].freed = @ + 1]

FreeAst(m, p) == [m EXCEPT !.nodes = free_ast_node(m.nodes, p)]

\* ----------------------------------------------------------------- parser
\* Parser (parser.c:17-24)
ZeroParser ==
  [current |-> ZeroToken, has_error |-> FALSE, error_msg |-> "",
   error_line |-> 0, error_column |-> 0]

\* errors: the lines parser_error has written to stderr; advances: the calls
\* of parser_advance; consumed: those of them that passed a token other than
\* EOF; stale_reads: a token text was read after its free; null_deref: a
\* NULL text was handed to strlen; stalled: a loop went round without
\* passing a token.
ZeroTrace ==
  [errors |-> 0, advances |-> 0, consumed |-> 0, stale_reads |-> FALSE,
   null_deref |-> FALSE, stalled |-> FALSE]

parser_create(L) == [ZeroParser EXCEPT !.current = lexer_current(L)]

\* a process that has crashed writes nothing more
parser_error(m, msg) ==
  IF m.trace.null_deref THEN m ELSE
  [m EXCEPT !.parser.error_msg = msg,
            !.parser.has_error = TRUE,
            !.parser.error_line = m.parser.current.line,
            !.parser.error_column = m.parser.current.column,
            !.trace.errors = @ + 1]

\* The functions of parser.c call one another, directly and through the
\* functions they call: call(function, m) is the call of the function of that
\* name on the parser and the memory m.
RECURSIVE call(_, _)

parser_advance(m) ==
  LET current(L) ==
        [m EXCEPT !.lexer = L,
                  !.parser.current = lexer_current(L),
                  !.trace.advances = @ + 1,
                  !.trace.consumed =
                    IF m.parser.current.type = "TOKEN_EOF" THEN @ ELSE @ + 1]
  IN current(lexer_skip(m.lexer))

parser_check(m, type) == m.parser.current.type = type

parser_check_value(m, type, value) ==
  IF m.parser.current.type # type THEN FALSE
  ELSE IF value = NullText \/ m.parser.current.value = NullText
  THEN value = NullText /\ m.parser.current.value = NullText
  ELSE m.parser.current.value = value

parser_expect(m, type, value, error_msg) ==
  IF ~parser_check_value(m, type, value)
  THEN [ok |-> FALSE, m |-> parser_error(m, error_msg)]
  ELSE [ok |-> TRUE, m |-> m]

parser_match(m, type, value) ==
  IF parser_check_value(m, type, value)
  THEN [ok |-> TRUE, m |-> call("parser_advance", m)]
  ELSE [ok |-> FALSE, m |-> m]

\* a parse function's result: the node it returns (0 for NULL) and the memory
Ret(node, m) == [node |-> node, m |-> m]


parse_literal(m) ==
  LET token == m.parser.current
      m1 == call("parser_advance", m)
  IN CASE token.type = "TOKEN_NUMBER_INT" ->
            create_literal_node_int(m1, token.int_val)
       [] token.type = "TOKEN_NUMBER_FLOAT" ->
            create_literal_node_float(m1, token.float_val)
       [] token.type = "TOKEN_STRING" -> create_literal_node_string(m1, token)
       [] token.type = "TOKEN_TRUE" -> create_literal_node_bool(m1, TRUE)
       [] token.type = "TOKEN_FALSE" -> create_literal_node_bool(m1, FALSE)
       [] token.type = "TOKEN_NULL" -> create_literal_node_null(m1)
       [] OTHER -> Ret(0, m)

parse_identifier(m) ==
  IF ~parser_check(m, "TOKEN_IDENTIFIER") THEN Ret(0, m)
  ELSE create_identifier_node(call("parser_advance", m), m.parser.current)

\* the while (1) loops of parse_primary over call arguments (parser.c:183-208)
\* and array elements (parser.c:225-250); close is ")" or "]"
RECURSIVE expression_list(_, _, _, _, _, _)
expression_list(m, head, count, close, msg_expr, msg_sep) ==
  LET e == call("parse_expression", m)
      m1 == IF head = 0 THEN e.m ELSE add_next_statement(e.m, head, e.node)
      head1 == IF head = 0 THEN e.node ELSE head
      comma == parser_match(m1, "TOKEN_PUNCTUATION", <<",">>)
      closing == parser_match(m1, "TOKEN_PUNCTUATION", close)
  IN IF e.node = 0
     THEN [m |-> parser_error(e.m, msg_expr), head |-> head, count |-> count]
     ELSE IF comma.ok
     THEN expression_list(comma.m, head1, count + 1, close, msg_expr, msg_sep)
     ELSE IF closing.ok
     THEN [m |-> closing.m, head |-> head1, count |-> count + 1]
     ELSE [m |-> parser_error(m1, msg_sep), head |-> head1,
           count |-> count + 1]

\* the while (1) loop of parse_primary over dictionary pairs
\* (parser.c:265-319)
RECURSIVE dict_pairs(_, _, _)
dict_pairs(m, keys, values) ==
  LET key == m.parser.current.value
      m1 == call("parser_advance", m)
      colon == parser_expect(m1, "TOKEN_PUNCTUATION", <<":">>,
                             "Expected ':' after dictionary key")
      v == call("parse_expression", colon.m)
      m2 == IF values = 0 THEN v.m ELSE add_next_statement(v.m, values, v.node)
      values1 == IF values = 0 THEN v.node ELSE values
      keys1 == Append(keys, key)
      comma == parser_match(m2, "TOKEN_PUNCTUATION", <<",">>)
      closing == parser_match(m2, "TOKEN_PUNCTUATION", <<"}">>)
  IN IF ~(parser_check(m, "TOKEN_STRING") \/ parser_check(m, "TOKEN_IDENTIFIER"))
     THEN [m |-> parser_error(m,
                   "Expected string or identifier as dictionary key"),
           keys |-> keys, values |-> values]
     ELSE IF ~colon.ok THEN [m |-> colon.m, keys |-> keys, values |-> values]
     ELSE IF v.node = 0
     THEN [m |-> parser_error(v.m, "Expected expression as dictionary value"),
           keys |-> keys, values |-> values]
     ELSE IF comma.ok THEN dict_pairs(comma.m, keys1, values1)
     ELSE IF closing.ok
     THEN [m |-> closing.m, keys |-> keys1, values |-> values1]
     ELSE [m |-> parser_error(m2, "Expected ',' or '}' in dictionary"),
           keys |-> keys1, values |-> values1]

\* parse_primary after parse_identifier has returned node (parser.c:159-216)
primary_identifier(m, node) ==
  LET dot == parser_match(m, "TOKEN_PUNCTUATION", <<".">>)
      open == parser_match(m, "TOKEN_PUNCTUATION", <<"(">>)
      empty == parser_match(open.m, "TOKEN_PUNCTUATION", <<")">>)
      args == IF empty.ok THEN [m |-> empty.m, head |-> 0, count |-> 0]
              ELSE expression_list(open.m, 0, 0, <<")">>,
                     "Expected expression in function call",
                     "Expected ',' or ')' in function call")
  IN IF dot.ok
     THEN IF ~parser_check(dot.m, "TOKEN_IDENTIFIER")
          THEN Ret(0, FreeAst(parser_error(dot.m,
                        "Expected member name after '.'"), node))
          ELSE create_member_access_node(call("parser_advance", dot.m), node,
                                         dot.m.parser.current)
     ELSE IF open.ok
     THEN create_call_expr_node(args.m, node, args.head, args.count)
     ELSE Ret(node, m)

parse_primary(m) ==
  LET lit == call("parse_literal", m)
      id == call("parse_identifier", m)
      bracket == parser_match(m, "TOKEN_PUNCTUATION", <<"[">>)
      nobody == parser_match(bracket.m, "TOKEN_PUNCTUATION", <<"]">>)
      elems == IF nobody.ok THEN [m |-> nobody.m, head |-> 0, count |-> 0]
               ELSE expression_list(bracket.m, 0, 0, <<"]">>,
                      "Expected expression in array",
                      "Expected ',' or ']' in array")
      brace == parser_match(m, "TOKEN_PUNCTUATION", <<"{">>)
      nopair == parser_match(brace.m, "TOKEN_PUNCTUATION", <<"}">>)
      pairs == IF nopair.ok THEN [m |-> nopair.m, keys |-> <<>>, values |-> 0]
               ELSE dict_pairs(brace.m, <<>>, 0)
      paren == parser_match(m, "TOKEN_PUNCTUATION", <<"(">>)
      expr == call("parse_expression", paren.m)
      close == parser_expect(expr.m, "TOKEN_PUNCTUATION", <<")">>,
                             "Expected ')' after expression")
  IN IF lit.node # 0 THEN lit
     ELSE IF id.node # 0 THEN primary_identifier(id.m, id.node)
     ELSE IF bracket.ok
     THEN create_array_literal_node(elems.m, elems.head, elems.count)
     ELSE IF brace.ok
     THEN create_dict_literal_node(pairs.m, pairs.keys, pairs.values,
                                   Len(pairs.keys))
     ELSE IF paren.ok
     THEN IF expr.node = 0
          THEN Ret(0, parser_error(expr.m, "Expected expression after '('"))
          ELSE IF ~close.ok THEN Ret(0, FreeAst(close.m, expr.node))
          ELSE Ret(expr.node, close.m)
     ELSE Ret(0, parser_error(m, "Expected expression"))

parse_unary(m) ==
  LET minus == parser_match(m, "TOKEN_OPERATOR", <<"-">>)
      bang == parser_match(m, "TOKEN_OPERATOR", <<"!">>)
      \* TOKEN_KEYWORD is no enumerator of TokenType: no token has this type
      word == parser_match(m, "TOKEN_KEYWORD", <<"n", "o", "t">>)
      op == IF minus.ok THEN <<"-">>
            ELSE IF bang.ok THEN <<"!">>
            ELSE IF word.ok THEN <<"n", "o", "t">>
            ELSE NullText
      m1 == IF minus.ok THEN minus.m ELSE IF bang.ok THEN bang.m ELSE word.m
      operand == call("parse_unary", m1)
  IN IF op # NullText
     THEN IF operand.node = 0
          THEN Ret(0, parser_error(operand.m,
                        "Expected operand after unary operator"))
          ELSE create_unary_expr_node(operand.m, op, operand.node)
     ELSE call("parse_primary", m)

\* The five binary levels of parser.c share one shape: level 1 is
\* parse_multiplicative, 2 parse_additive, 3 parse_comparison,
\* 4 parse_logical_and, 5 parse_logical_or.  The operators a level's while
\* condition tries, in the order it tries them:
level_operators(level) ==
  CASE level = 1 -> <<[type |-> "TOKEN_OPERATOR", value |-> <<"*">>],
                      [type |-> "TOKEN_OPERATOR", value |-> <<"/">>],
                      [type |-> "TOKEN_OPERATOR", value |-> <<"%">>]>>
    [] level = 2 -> <<[type |-> "TOKEN_OPERATOR", value |-> <<"+">>],
                      [type |-> "TOKEN_OPERATOR", value |-> <<"-">>]>>
    [] level = 3 -> <<[type |-> "TOKEN_OPERATOR", value |-> <<"<">>],
                      [type |-> "TOKEN_OPERATOR", value |-> <<">">>],
                      [type |-> "TOKEN_OPERATOR", value |-> <<"<", "=">>],
                      [type |-> "TOKEN_OPERATOR", value |-> <<">", "=">>],
                      [type |-> "TOKEN_OPERATOR", value |-> <<"=", "=">>],
                      [type |-> "TOKEN_OPERATOR", value |-> <<"!", "=">>]>>
    [] level = 4 -> <<[type |-> "TOKEN_OPERATOR", value |-> <<"&", "&">>],
                      [type |-> "TOKEN_KEYWORD", value |-> <<"a", "n", "d">>]>>
    [] level = 5 -> <<[type |-> "TOKEN_OPERATOR", value |-> <<"|", "|">>],
                      [type |-> "TOKEN_KEYWORD", value |-> <<"o", "r">>]>>

level_error(level) ==
  CASE level \in {1, 2} -> "Expected right operand for binary operator"
    [] level = 3 -> "Expected right operand for comparison operator"
    [] level = 4 -> "Expected right operand for logical AND"
    [] level = 5 -> "Expected right operand for logical OR"

\* parser_match(..) || parser_match(..) || ..: the first that matches
\* advances, the later ones are not tried
match_any(m, ops) ==
  IF \E i \in 1..Len(ops) : parser_check_value(m, ops[i].type, ops[i].value)
  THEN [ok |-> TRUE, m |-> call("parser_advance", m)]
  ELSE [ok |-> FALSE, m |-> m]

RECURSIVE parse_level(_, _), binary_loop(_, _, _)
\* the while loop of a binary level, left being the operand parsed so far
binary_loop(m, left, level) ==
  LET matched == match_any(m, level_operators(level))
      \* op = parser->current.value, after parser_match has advanced
      op_token == matched.m.parser.current
      m1 == call("parser_advance", matched.m)
      right == parse_level(m1, level - 1)
      node == create_binary_expr_node(right.m, op_token, left, right.node)
  IN IF ~matched.ok THEN Ret(left, m)
     ELSE IF right.node = 0
     THEN Ret(0, FreeAst(parser_error(right.m, level_error(level)), left))
     ELSE binary_loop(node.m, node.node, level)

parse_level(m, level) ==
  IF level = 0 THEN call("parse_unary", m)
  ELSE LET left == parse_level(m, level - 1)
       IN IF left.node = 0 THEN left
          ELSE binary_loop(left.m, left.node, level)

parse_multiplicative(m) == parse_level(m, 1)

parse_additive(m) == parse_level(m, 2)

parse_comparison(m) == parse_level(m, 3)

parse_logical_and(m) == parse_level(m, 4)

parse_logical_or(m) == parse_level(m, 5)

assignment_operators ==
  <<[type |-> "TOKEN_OPERATOR", value |-> <<"=">>],
    [type |-> "TOKEN_OPERATOR", value |-> <<"+", "=">>],
    [type |-> "TOKEN_OPERATOR", value |-> <<"-", "=">>],
    [type |-> "TOKEN_OPERATOR", value |-> <<"*", "=">>],
    [type |-> "TOKEN_OPERATOR", value |-> <<"/", "=">>],
    [type |-> "TOKEN_OPERATOR", value |-> <<"%", "=">>]>>

parse_assignment(m) ==
  LET left == call("parse_logical_or", m)
      matched == match_any(left.m, assignment_operators)
      \* op = parser->current.value, after parser_match has advanced
      op_token == matched.m.parser.current
      m1 == call("parser_advance", matched.m)
      \* strlen(op): op is NULL when the token carries no text, and points
      \* to freed memory otherwise
      op == ReadText(m1, op_token)
      m2 == IF op_token.ptr = 0
            THEN [m1 EXCEPT !.trace.null_deref = TRUE]
            ELSE NoteRead(m1, op_token)
      right == call("parse_assignment", m2)
  IN IF left.node = 0 THEN left
     ELSE IF ~matched.ok THEN left
     ELSE IF op_token.ptr = 0 THEN Ret(0, m2)
     ELSE IF Len(op) = 2 /\ op[2] = "="
     THEN Ret(0, FreeAst(parser_error(m2,
                   "Compound assignment not fully implemented yet"),
                 left.node))
     ELSE IF right.node = 0
     THEN Ret(0, FreeAst(parser_error(right.m,
                   "Expected right side of assignment"), left.node))
     ELSE create_assignment_node(right.m, left.node, right.node)

parse_expression(m) == call("parse_assignment", m)

\* a recovery loop that does not stop at EOF
recovering_past_eof(m) == ~parser_check(m, "TOKEN_NEWLINE")

\* the condition of the recovery loops of parse_block (parser.c:577-580) and
\* parse_program (parser.c:957-960)
recovering(m) ==
  ~parser_check(m, "TOKEN_NEWLINE") /\ ~parser_check(m, "TOKEN_EOF")

\* a loop body has passed a token
Progress(m, m1) == m1.trace.consumed > m.trace.consumed

\* the recovery loop of parse_block; an iteration that passes no token would
\* repeat for ever, which trace.stalled records
RECURSIVE skip_line(_)
skip_line(m) ==
  LET m1 == call("parser_advance", m)
  IN IF ~recovering(m) THEN m
     ELSE IF Progress(m, m1) THEN skip_line(m1)
     ELSE [m1 EXCEPT !.trace.stalled = TRUE]

\* behind a statement the optional semicolon and the newline are passed
\* (parser.c:596-599, 975-978)
end_of_statement(m) ==
  LET newline(m2) ==
        IF parser_check(m2, "TOKEN_NEWLINE") THEN call("parser_advance", m2)
        ELSE m2
  IN newline(parser_match(m, "TOKEN_PUNCTUATION", <<";">>).m)

\* the while loop of parse_block
RECURSIVE block_loop(_, _, _)
block_loop(m, stmts, last) ==
  LET stmt == call("parse_statement", m)
      skipped == skip_line(stmt.m)
      m1 == IF stmts = 0 THEN stmt.m
            ELSE add_next_statement(stmt.m, last, stmt.node)
      stmts1 == IF stmts = 0 THEN stmt.node ELSE stmts
      m3 == end_of_statement(m1)
      stall(mm) == [m |-> [mm EXCEPT !.trace.stalled = TRUE],
                    statements |-> stmts]
  IN IF parser_check_value(m, "TOKEN_PUNCTUATION", <<"}">>)
     THEN [m |-> m, statements |-> stmts]
     ELSE IF parser_check(m, "TOKEN_NEWLINE")
     THEN block_loop(call("parser_advance", m), stmts, last)
     ELSE IF parser_check(m, "TOKEN_EOF")
     THEN [m |-> parser_error(m, "Unexpected end of file in block"),
           statements |-> stmts]
     ELSE IF stmt.node = 0
     THEN IF Progress(m, skipped) /\ ~skipped.trace.stalled
          THEN block_loop(skipped, stmts, last)
          ELSE stall(skipped)
     ELSE IF Progress(m, m3) THEN block_loop(m3, stmts1, stmt.node)
     ELSE stall(m3)

parse_block(m) ==
  LET b == block_loop(m, 0, 0)
  IN create_block_node(b.m, b.statements)

\* The condition of if, elif and while: optional "(", the expression, the
\* ")" expected after it, optional ":" (parser.c:682-696, 719-732, 803-816)
parse_condition(m, error_msg) ==
  LET has_paren == parser_match(m, "TOKEN_PUNCTUATION", <<"(">>)
      condition == call("parse_expression", has_paren.m)
      close == IF has_paren.ok
               THEN parser_expect(condition.m, "TOKEN_PUNCTUATION", <<")">>,
                                  "Expected ')' after condition")
               ELSE [ok |-> TRUE, m |-> condition.m]
  IN IF condition.node = 0
     THEN [ok |-> FALSE, node |-> 0, m |-> parser_error(condition.m, error_msg)]
     ELSE IF ~close.ok
     THEN [ok |-> FALSE, node |-> 0, m |-> FreeAst(close.m, condition.node)]
     ELSE [ok |-> TRUE, node |-> condition.node,
           m |-> parser_match(close.m, "TOKEN_PUNCTUATION", <<":">>).m]

\* The branch or body of if, elif, else, while and for: a block in braces
\* with the "}" expected after it, or one statement (parser.c:699-714,
\* 734-749, 766-783, 818-832, 859-873).  When ok is FALSE, node is the
\* block that was parsed, if any.
parse_body(m, error_msg) ==
  LET open == parser_match(m, "TOKEN_PUNCTUATION", <<"{">>)
      block == call("parse_block", open.m)
      close == parser_expect(block.m, "TOKEN_PUNCTUATION", <<"}">>,
                             "Expected '}' after block")
      stmt == call("parse_statement", m)
  IN IF open.ok THEN [ok |-> close.ok, node |-> block.node, m |-> close.m]
     ELSE IF stmt.node = 0
     THEN [ok |-> FALSE, node |-> 0, m |-> parser_error(stmt.m, error_msg)]
     ELSE [ok |-> TRUE, node |-> stmt.node, m |-> stmt.m]

\* parse_statement after "var" (parser.c:611-629)
var_declaration(m) ==
  LET name_token == m.parser.current
      m1 == call("parser_advance", m)
      eq == parser_match(m1, "TOKEN_OPERATOR", <<"=">>)
      value == call("parse_expression", eq.m)
  IN IF ~parser_check(m, "TOKEN_IDENTIFIER")
     THEN Ret(0, parser_error(m, "Expected variable name after 'var'"))
     ELSE IF ~eq.ok THEN create_var_decl_node(m1, name_token, 0, FALSE)
     ELSE IF value.node = 0
     THEN Ret(0, parser_error(value.m, "Expected expression after '='"))
     ELSE create_var_decl_node(value.m, name_token, value.node, FALSE)

\* parse_statement after "const" (parser.c:634-653)
const_declaration(m) ==
  LET name_token == m.parser.current
      m1 == call("parser_advance", m)
      eq == parser_expect(m1, "TOKEN_OPERATOR", <<"=">>,
                          "Expected '=' after constant name")
      value == call("parse_expression", eq.m)
  IN IF ~parser_check(m, "TOKEN_IDENTIFIER")
     THEN Ret(0, parser_error(m, "Expected constant name after 'const'"))
     ELSE IF ~eq.ok THEN Ret(0, eq.m)
     ELSE IF value.node = 0
     THEN Ret(0, parser_error(value.m, "Expected expression after '='"))
     ELSE create_var_decl_node(value.m, name_token, value.node, TRUE)

\* parse_statement after "return" (parser.c:658-666)
return_statement(m) ==
  LET value == call("parse_expression", m)
  IN IF parser_check(m, "TOKEN_NEWLINE") \/ parser_check(m, "TOKEN_EOF")
        \/ parser_check_value(m, "TOKEN_PUNCTUATION", <<"}">>)
     THEN create_return_node(m, 0)
     ELSE create_return_node(value.m, value.node)

\* the while loop over elif branches (parser.c:718-759)
RECURSIVE elif_loop(_, _)
elif_loop(m, elif_branches) ==
  LET after_then(elif_condition, elif_then, elif_node) ==
        IF ~elif_then.ok
        THEN [m |-> FreeAst(FreeAst(elif_then.m, elif_condition.node),
                            elif_then.node),
              elif_branches |-> elif_branches]
        ELSE IF elif_branches = 0 THEN elif_loop(elif_node.m, elif_node.node)
        ELSE elif_loop(add_next_statement(elif_node.m, elif_branches,
                                          elif_node.node),
                       elif_branches)
      after_body(elif_condition, elif_then) ==
        after_then(elif_condition, elif_then,
                   create_elif_node(elif_then.m, elif_condition.node,
                                    elif_then.node))
      after_condition(elif_condition) ==
        IF ~elif_condition.ok
        THEN [m |-> elif_condition.m, elif_branches |-> elif_branches]
        ELSE after_body(elif_condition,
                        parse_body(elif_condition.m,
                          "Expected statement after 'elif' condition"))
      after_elif(elif) ==
        IF ~elif.ok THEN [m |-> m, elif_branches |-> elif_branches]
        ELSE after_condition(
               parse_condition(elif.m, "Expected condition after 'elif'"))
  IN after_elif(parser_match(m, "TOKEN_ELIF", NullText))

\* the while loop that attaches the elif branches (parser.c:790-796)
RECURSIVE attach_elif_branches(_, _, _)
attach_elif_branches(m, if_node, current) ==
  IF current = 0 THEN m
  ELSE attach_elif_branches(
         add_next_statement(m, m.nodes[if_node].elif_branches, current),
         if_node, m.nodes[current].next)

\* parse_statement after "if" (parser.c:681-798)
if_statement(m) ==
  LET after_node(if_node, elifs) ==
        Ret(if_node.node,
            attach_elif_branches(if_node.m, if_node.node,
                                 elifs.elif_branches))
      after_else(condition, then_branch, elifs, else_branch) ==
        IF ~else_branch.ok
        THEN Ret(0, FreeAst(FreeAst(FreeAst(else_branch.m, condition.node),
                                    then_branch.node),
                            elifs.elif_branches))
        ELSE after_node(create_if_node(else_branch.m, condition.node,
                                       then_branch.node, else_branch.node),
                        elifs)
      else_body(else, elifs) ==
        IF else.ok
        THEN parse_body(parser_match(else.m, "TOKEN_PUNCTUATION", <<":">>).m,
                        "Expected statement after 'else'")
        ELSE [ok |-> TRUE, node |-> 0, m |-> elifs.m]
      after_elifs(condition, then_branch, elifs) ==
        after_else(condition, then_branch, elifs,
                   else_body(parser_match(elifs.m, "TOKEN_ELSE", NullText),
                             elifs))
      after_then(condition, then_branch) ==
        IF ~then_branch.ok
        THEN Ret(0, FreeAst(FreeAst(then_branch.m, condition.node),
                            then_branch.node))
        ELSE after_elifs(condition, then_branch,
                         elif_loop(then_branch.m, 0))
      after_condition(condition) ==
        IF ~condition.ok THEN Ret(0, condition.m)
        ELSE after_then(condition,
                        parse_body(condition.m,
                                   "Expected statement after 'if' condition"))
  IN after_condition(parse_condition(m, "Expected condition after 'if'"))

\* parse_statement after "while" (parser.c:803-834)
while_statement(m) ==
  LET after_body(condition, body) ==
        IF ~body.ok THEN Ret(0, FreeAst(body.m, condition.node))
        ELSE create_while_node(body.m, condition.node, body.node)
      after_condition(condition) ==
        IF ~condition.ok THEN Ret(0, condition.m)
        ELSE after_body(condition,
                        parse_body(condition.m,
                          "Expected statement after 'while' condition"))
  IN after_condition(parse_condition(m, "Expected condition after 'while'"))

\* parse_statement after "for" (parser.c:839-876)
for_statement(m) ==
  LET iterator_token == m.parser.current
      m1 == call("parser_advance", m)
      in == parser_expect(m1, "TOKEN_IN", NullText,
                          "Expected 'in' after iterator variable")
      iterable == call("parse_expression", in.m)
      body == parse_body(
                parser_match(iterable.m, "TOKEN_PUNCTUATION", <<":">>).m,
                "Expected statement after 'for' header")
  IN IF ~parser_check(m, "TOKEN_IDENTIFIER")
     THEN Ret(0, parser_error(m, "Expected iterator variable after 'for'"))
     ELSE IF ~in.ok THEN Ret(0, in.m)
     ELSE IF iterable.node = 0
     THEN Ret(0, parser_error(iterable.m,
                              "Expected iterable expression after 'in'"))
     ELSE IF ~body.ok THEN Ret(0, FreeAst(body.m, iterable.node))
     ELSE create_for_node(body.m, iterator_token, iterable.node, body.node)

\* the while (1) loop over the import list (parser.c:902-925)
RECURSIVE import_list(_, _)
import_list(m, imports) ==
  LET import_name == m.parser.current.value
      comma == parser_match(call("parser_advance", m), "TOKEN_PUNCTUATION",
                            <<",">>)
  IN IF ~parser_check(m, "TOKEN_IDENTIFIER")
     THEN [m |-> parser_error(m, "Expected identifier in import list"),
           imports |-> imports]
     ELSE IF comma.ok THEN import_list(comma.m, Append(imports, import_name))
     ELSE [m |-> comma.m, imports |-> Append(imports, import_name)]

\* parse_statement after "from" (parser.c:881-929)
from_import_statement(m) ==
  LET module_token == m.parser.current
      m1 == call("parser_advance", m)
      using == parser_expect(m1, "TOKEN_USING", NullText,
                             "Expected 'using' after module name")
      star == parser_match(using.m, "TOKEN_OPERATOR", <<"*">>)
      list == import_list(using.m, <<>>)
  IN IF ~parser_check(m, "TOKEN_IDENTIFIER")
     THEN Ret(0, parser_error(m, "Expected module name after 'from'"))
     ELSE IF ~using.ok THEN Ret(0, using.m)
     ELSE IF star.ok
     THEN create_from_import_node(star.m, module_token, <<>>, 0, TRUE)
     ELSE create_from_import_node(list.m, module_token, list.imports,
                                  Len(list.imports), FALSE)

parse_statement(m) ==
  LET var == parser_match(m, "TOKEN_VAR", NullText)
      const == parser_match(m, "TOKEN_CONST", NullText)
      return == parser_match(m, "TOKEN_RETURN", NullText)
      break == parser_match(m, "TOKEN_BREAK", NullText)
      continue == parser_match(m, "TOKEN_CONTINUE", NullText)
      if == parser_match(m, "TOKEN_IF", NullText)
      while == parser_match(m, "TOKEN_WHILE", NullText)
      for == parser_match(m, "TOKEN_FOR", NullText)
      from == parser_match(m, "TOKEN_FROM", NullText)
      expr == call("parse_expression", m)
  IN IF var.ok THEN var_declaration(var.m)
     ELSE IF const.ok THEN const_declaration(const.m)
     ELSE IF return.ok THEN return_statement(return.m)
     ELSE IF break.ok THEN create_break_node(break.m)
     ELSE IF continue.ok THEN create_continue_node(continue.m)
     ELSE IF if.ok THEN if_statement(if.m)
     ELSE IF while.ok THEN while_statement(while.m)
     ELSE IF for.ok THEN for_statement(for.m)
     ELSE IF from.ok THEN from_import_statement(from.m)
     ELSE IF expr.node # 0 THEN create_expr_stmt_node(expr.m, expr.node)
     ELSE Ret(0, parser_error(expr.m, "Expected statement"))

call(function, m) ==
  CASE function = "parser_advance" -> parser_advance(m)
    [] function = "parse_literal" -> parse_literal(m)
    [] function = "parse_identifier" -> parse_identifier(m)
    [] function = "parse_primary" -> parse_primary(m)
    [] function = "parse_unary" -> parse_unary(m)
    [] function = "parse_logical_or" -> parse_logical_or(m)
    [] function = "parse_assignment" -> parse_assignment(m)
    [] function = "parse_expression" -> parse_expression(m)
    [] function = "parse_block" -> parse_block(m)
    [] function = "parse_statement" -> parse_statement(m)

\* ---------------------------------------------------------------- the run
\* The source texts the runs are given, each a sequence of characters.
\* var x = 10\n
VarLines1 ==
  <<"v", "a", "r", " ", "x", " ", "=", " ", "1", "0", "\n">>

\* var x = 10\nvar y = 20\n
VarLines2 ==
  <<"v", "a", "r", " ", "x", " ", "=", " ", "1", "0", "\n", "v", "a", "r",
    " ", "y", " ", "=", " ", "2", "0", "\n">>

\* var a = 1\nvar b = 2\nvar c = 3\n
VarLines3 ==
  <<"v", "a", "r", " ", "a", " ", "=", " ", "1", "\n", "v", "a", "r", " ",
    "b", " ", "=", " ", "2", "\n", "v", "a", "r", " ", "c", " ", "=", " ",
    "3", "\n">>

\* /* abc
UnclosedComment ==
  <<"/", "*", " ", "a", "b", "c">>

\* var x = 10 /* c
UnclosedCommentAfterDecl ==
  <<"v", "a", "r", " ", "x", " ", "=", " ", "1", "0", " ", "/", "*", " ",
    "c">>

\* var x = 1.2.3\n
InvalidNumber ==
  <<"v", "a", "r", " ", "x", " ", "=", " ", "1", ".", "2", ".", "3", "\n">>

\* var s = "a\\qb"\n
UnknownEscape ==
  <<"v", "a", "r", " ", "s", " ", "=", " ", "\"", "a", "\\", "q", "b", "\"",
    "\n">>

\* var = 1\nvar y = 2\n
MissingName ==
  <<"v", "a", "r", " ", "=", " ", "1", "\n", "v", "a", "r", " ", "y", " ",
    "=", " ", "2", "\n">>

\* var x = )\nvar y = 2\n
MissingValue ==
  <<"v", "a", "r", " ", "x", " ", "=", " ", ")", "\n", "v", "a", "r", " ",
    "y", " ", "=", " ", "2", "\n">>

\* x = true
AssignKeyword ==
  <<"x", " ", "=", " ", "t", "r", "u", "e">>

\* x =
AssignEof ==
  <<"x", " ", "=">>

\* var x = 10 + 20 * 3
Precedence ==
  <<"v", "a", "r", " ", "x", " ", "=", " ", "1", "0", " ", "+", " ", "2",
    "0", " ", "*", " ", "3">>

\* if (x > 5) { console(1) } else { console(2) }
IfElse ==
  <<"i", "f", " ", "(", "x", " ", ">", " ", "5", ")", " ", "{", " ", "c",
    "o", "n", "s", "o", "l", "e", "(", "1", ")", " ", "}", " ", "e", "l",
    "s", "e", " ", "{", " ", "c", "o", "n", "s", "o", "l", "e", "(", "2",
    ")", " ", "}">>

\* from math using sin, cos, PI
FromImport ==
  <<"f", "r", "o", "m", " ", "m", "a", "t", "h", " ", "u", "s", "i", "n",
    "g", " ", "s", "i", "n", ",", " ", "c", "o", "s", ",", " ", "P", "I">>

\* from m using *
FromImportAll ==
  <<"f", "r", "o", "m", " ", "m", " ", "u", "s", "i", "n", "g", " ", "*">>

\* "abc
UnclosedString ==
  <<"\"", "a", "b", "c">>

\* if a b elif c d
IfElif ==
  <<"i", "f", " ", "a", " ", "b", " ", "e", "l", "i", "f", " ", "c", " ", "d",
    "\n">>

\* if a b elif c d elif e f
IfElifElif ==
  <<"i", "f", " ", "a", " ", "b", " ", "e", "l", "i", "f", " ", "c", " ", "d",
    " ", "e", "l", "i", "f", " ", "e", " ", "f", "\n">>

\* a or b
KeywordOr ==
  <<"a", " ", "o", "r", " ", "b", "\n">>

\* a and b
KeywordAnd ==
  <<"a", " ", "a", "n", "d", " ", "b", "\n">>

\* not a
KeywordNot ==
  <<"n", "o", "t", " ", "a", "\n">>

\* a || b
SymbolOr ==
  <<"a", " ", "|", "|", " ", "b", "\n">>

\* a && b
SymbolAnd ==
  <<"a", " ", "&", "&", " ", "b", "\n">>

\* !a
SymbolNot ==
  <<"!", "a", "\n">>

\* const c = 1
ConstDecl ==
  <<"c", "o", "n", "s", "t", " ", "c", " ", "=", " ", "1", "\n">>

\* const c 1
ConstWithoutEquals ==
  <<"c", "o", "n", "s", "t", " ", "c", " ", "1", "\n">>

\* 7 - 2 - 1
AdditiveChain == <<"7", " ", "-", " ", "2", " ", "-", " ", "1", "\n">>

\* 8 * 2 / 4
MultiplicativeChain == <<"8", " ", "*", " ", "2", " ", "/", " ", "4", "\n">>

\* 1 < 2 > 3
ComparisonChain == <<"1", " ", "<", " ", "2", " ", ">", " ", "3", "\n">>

\* x += 1 2
CompoundThenTwoValues ==
  <<"x", " ", "+", "=", " ", "1", " ", "2", "\n">>

\* a += 1
CompoundAssignment ==
  <<"a", " ", "+", "=", " ", "1">>

\* f(1, 2, 3)
CallOfThree ==
  <<"f", "(", "1", ",", " ", "2", ",", " ", "3", ")", "\n">>

\* [1, 2]
ArrayOfTwo ==
  <<"[", "1", ",", " ", "2", "]", "\n">>

OtherSources ==
  {
    \* (the empty source)
    <<>>,
    \* var x\n
    <<"v", "a", "r", " ", "x", "\n">>,
    \* var s = "ab"\n
    <<"v", "a", "r", " ", "s", " ", "=", " ", "\"", "a", "b", "\"", "\n">>,
    \* var a = 1\nvar b = 2\nvar = 3\n
    <<"v", "a", "r", " ", "a", " ", "=", " ", "1", "\n", "v", "a", "r", " ",
      "b", " ", "=", " ", "2", "\n", "v", "a", "r", " ", "=", " ", "3", "\n">>,
    \* x = \nvar y = 2\n
    <<"x", " ", "=", " ", "\n", "v", "a", "r", " ", "y", " ", "=", " ", "2",
      "\n">>,
    \* @\nvar y = 2\n
    <<"@", "\n", "v", "a", "r", " ", "y", " ", "=", " ", "2", "\n">>,
    \* x = 5\n
    <<"x", " ", "=", " ", "5", "\n">>,
    \* x = a += 1
    <<"x", " ", "=", " ", "a", " ", "+", "=", " ", "1">>,
    \* 1 + 2\n
    <<"1", " ", "+", " ", "2", "\n">>,
    \* if x { y }\n
    <<"i", "f", " ", "x", " ", "{", " ", "y", " ", "}", "\n">>,
    \* if x { var }\n
    <<"i", "f", " ", "x", " ", "{", " ", "v", "a", "r", " ", "}", "\n">>,
    \* if x y elif z w else v\n
    <<"i", "f", " ", "x", " ", "y", " ", "e", "l", "i", "f", " ", "z", " ",
      "w", " ", "e", "l", "s", "e", " ", "v", "\n">>,
    \* while x {\n
    <<"w", "h", "i", "l", "e", " ", "x", " ", "{", "\n">>,
    \* while x y\n
    <<"w", "h", "i", "l", "e", " ", "x", " ", "y", "\n">>,
    \* for i in x { y }\n
    <<"f", "o", "r", " ", "i", " ", "i", "n", " ", "x", " ", "{", " ", "y",
      " ", "}", "\n">>,
    \* {a: 1}\n
    <<"{", "a", ":", " ", "1", "}", "\n">>,
    \* (1)\n
    <<"(", "1", ")", "\n">>,
    \* -x; a.b\n
    <<"-", "x", ";", " ", "a", ".", "b", "\n">>,
    \* return\nbreak\ncontinue\n
    <<"r", "e", "t", "u", "r", "n", "\n", "b", "r", "e", "a", "k", "\n",
      "c", "o", "n", "t", "i", "n", "u", "e", "\n">>
  }

Sources ==
  {VarLines1, VarLines2, VarLines3, UnclosedComment,
   UnclosedCommentAfterDecl, InvalidNumber, UnknownEscape, MissingName,
   MissingValue, AssignKeyword, AssignEof, Precedence, IfElse, FromImport,
   FromImportAll, UnclosedString, CompoundThenTwoValues, CompoundAssignment,
   CallOfThree, ArrayOfTwo, IfElif, IfElifElif, KeywordOr, KeywordAnd,
   KeywordNot, SymbolOr, SymbolAnd, SymbolNot, ConstDecl,
   ConstWithoutEquals, AdditiveChain, MultiplicativeChain, ComparisonChain}
    \cup OtherSources

RECURSIVE free_lookahead(_, _)
free_lookahead(L, i) ==
  IF i > MAX_LOOKAHEAD THEN L
  ELSE free_lookahead(FreeText(L, L.lookahead[i].ptr), i + 1)

lexer_destroy(L) == free_lookahead(FreeText(L, L.current.ptr), 1)

\* a read of freed token text, as the build resolves it
StaleReads == {"intact", "reused", "garbage"}

\* the furthest token at which a caller starts parse_program
MaxStart == 3

\* a second free of a node, as the allocator resolves it
DoubleFrees == {"abort", "ignored"}

\* what a run is given and never changes
env == <<source, start, entry, stale_read, double_free>>

\* the variables of a client of the lexer
client == <<delivered, peek, calls>>

\* no call of lexer_peek_token yet
NoPeek ==
  [k |-> 0, at |-> 0, fills |-> 0, returned |-> FALSE, result |-> ZeroToken]

Mem == [lexer |-> lexer, parser |-> parser, nodes |-> nodes, trace |-> trace]

Store(m) ==
  /\ lexer' = m.lexer
  /\ parser' = m.parser
  /\ nodes' = m.nodes
  /\ trace' = m.trace

Init ==
  /\ source \in Sources
  /\ entry \in {"parse_source", "primed"}
  /\ start \in IF entry = "primed" THEN 1..MaxStart ELSE {0}
  /\ loaded = 0
  /\ stale_read \in StaleReads
  /\ double_free \in DoubleFrees
  /\ pc = "start"
  /\ lexer = lexer_create(<<>>)
  /\ parser = ZeroParser
  /\ nodes = <<>>
  /\ trace = ZeroTrace
  /\ statements = 0
  /\ last_stmt = 0
  /\ ast = 0
  /\ delivered = <<>>
  /\ peek = NoPeek
  /\ calls = 0

\* parse_source: Lexer* lexer = lexer_create(source, filename)
LexerCreate ==
  /\ pc = "start"
  /\ lexer' = lexer_create(source)
  /\ pc' = "create"
  /\ UNCHANGED <<env, client, loaded, parser, nodes, trace, statements,
                 last_stmt, ast>>

\* the caller of parse_program that loads a token with lexer_skip before it
\* creates the parser: parse_program then starts at token number start
Prime ==
  /\ pc = "create"
  /\ loaded < start
  /\ lexer' = lexer_skip(lexer)
  /\ loaded' = loaded + 1
  /\ UNCHANGED <<env, client, pc, parser, nodes, trace, statements, last_stmt,
                 ast>>

\* parse_source: Parser* parser = parser_create(lexer)
ParserCreate ==
  /\ pc = "create"
  /\ loaded = start
  /\ parser' = parser_create(lexer)
  /\ pc' = "program"
  /\ UNCHANGED <<env, client, loaded, lexer, nodes, trace, statements,
                 last_stmt, ast>>

\* parse_program, an iteration that skips an empty line (parser.c:949-952)
ProgramNewline ==
  /\ pc = "program"
  /\ ~parser_check(Mem, "TOKEN_EOF")
  /\ parser_check(Mem, "TOKEN_NEWLINE")
  /\ Store(call("parser_advance", Mem))
  /\ UNCHANGED <<env, client, loaded, pc, statements, last_stmt, ast>>

\* parse_program, an iteration that parses a statement (parser.c:954-979):
\* on NULL the recovery loop is entered, otherwise the statement is linked
\* and the optional semicolon and the newline are passed
ProgramStatement ==
  /\ pc = "program"
  /\ ~parser_check(Mem, "TOKEN_EOF")
  /\ ~parser_check(Mem, "TOKEN_NEWLINE")
  /\ \E stmt \in {call("parse_statement", Mem)} :
       IF stmt.m.trace.null_deref
       THEN /\ pc' = "crashed"
            /\ trace' = stmt.m.trace
            /\ UNCHANGED <<lexer, parser, nodes, statements, last_stmt>>
       ELSE IF stmt.node = 0
       THEN /\ pc' = "recover"
            /\ Store(stmt.m)
            /\ UNCHANGED <<statements, last_stmt>>
       ELSE /\ pc' = "program"
            /\ Store(end_of_statement(
                       IF statements = 0 THEN stmt.m
                       ELSE add_next_statement(stmt.m, last_stmt, stmt.node)))
            /\ statements' = IF statements = 0 THEN stmt.node ELSE statements
            /\ last_stmt' = stmt.node
  /\ UNCHANGED <<env, client, loaded, ast>>

\* parse_program, an iteration of the recovery loop (parser.c:957-960)
ProgramRecoverSkip ==
  /\ pc = "recover"
  /\ recovering(Mem)
  /\ Store(call("parser_advance", Mem))
  /\ UNCHANGED <<env, client, loaded, pc, statements, last_stmt, ast>>

\* parse_program, the recovery loop ends and the program loop continues
ProgramRecoverDone ==
  /\ pc = "recover"
  /\ ~recovering(Mem)
  /\ pc' = "program"
  /\ UNCHANGED <<env, client, loaded, lexer, parser, nodes, trace, statements,
                 last_stmt, ast>>

\* parse_program, the loop ends at EOF: return create_program_node(statements)
ProgramReturn ==
  /\ pc = "program"
  /\ parser_check(Mem, "TOKEN_EOF")
  /\ LET r == create_program_node(Mem, statements)
     IN /\ Store(r.m)
        /\ ast' = r.node
  /\ pc' = "check"
  /\ UNCHANGED <<env, client, loaded, statements, last_stmt>>

\* a node of heap H has been freed more than once
FreedTwice(H) == \E p \in 1..Len(H) : H[p].freed > 1

\* a parse_source that returns the tree whatever the flag
parse_source_result_keeps_tree(has_error, tree) == tree

\* parse_source: the value returned for the flag and the tree parse_program
\* has left (parser.c:1008-1012, 1018)
parse_source_result(has_error, tree) == IF has_error THEN 0 ELSE tree

\* parse_source: the check for errors (parser.c:1007-1012)
ParseSourceCheck ==
  /\ pc = "check"
  /\ LET H == IF parser.has_error THEN free_ast_node(nodes, ast) ELSE nodes
     IN /\ nodes' = H
        /\ IF FreedTwice(H) /\ double_free = "abort"
           THEN pc' = "crashed" /\ ast' = ast
           ELSE /\ pc' = "cleanup"
                /\ ast' = parse_source_result(parser.has_error, ast)
  /\ UNCHANGED <<env, client, loaded, lexer, parser, trace, statements,
                 last_stmt>>

\* parse_source: parser_destroy, lexer_destroy, return ast (parser.c:1014-1018)
ParseSourceCleanup ==
  /\ pc = "cleanup"
  /\ lexer' = lexer_destroy(lexer)
  /\ pc' = "done"
  /\ UNCHANGED <<env, client, loaded, parser, nodes, trace, statements,
                 last_stmt, ast>>

Next ==
  \/ LexerCreate
  \/ Prime
  \/ ParserCreate
  \/ ProgramNewline
  \/ ProgramStatement
  \/ ProgramRecoverSkip
  \/ ProgramRecoverDone
  \/ ProgramReturn
  \/ ParseSourceCheck
  \/ ParseSourceCleanup

Spec == Init /\ [][Next]_vars

\* ------------------------------------------------------- the lexer's client
\* A client of the lexer calls lexer_next, lexer_skip followed by
\* lexer_current, and lexer_peek_token in any order.

\* the calls a client makes, and the rounds of lexer_peek_token's loop that
\* are followed
MaxCalls == 3
MaxFills == 3

\* sources in which two-character operators stand
OperatorSources ==
  {
    \* a==b
    <<"a", "=", "=", "b">>,
    \* ===
    <<"=", "=", "=">>,
    \* <=>
    <<"<", "=", ">">>,
    \* x+=1
    <<"x", "+", "=", "1">>,
    \* !=-
    <<"!", "=", "-">>,
    \* a&&b
    <<"a", "&", "&", "b">>,
    \* ||c
    <<"|", "|", "c">>,
    \* *=/=
    <<"*", "=", "/", "=">>,
    \* %=
    <<"%", "=">>,
    \* -=
    <<"-", "=">>,
    \* ==
    <<"=", "=">>,
    \* >=
    <<">", "=">>
  }

\* 42
Decimal ==
  <<"4", "2">>

\* 0xFF
Hexadecimal ==
  <<"0", "x", "F", "F">>

\* 0b1010
Binary ==
  <<"0", "b", "1", "0", "1", "0">>

\* 3.14e-2
Float ==
  <<"3", ".", "1", "4", "e", "-", "2">>

\* further number literals
OtherNumbers ==
  {
    \* 0XfF
    <<"0", "X", "f", "F">>,
    \* 0B11
    <<"0", "B", "1", "1">>,
    \* 1e5
    <<"1", "e", "5">>,
    \* 2.5
    <<"2", ".", "5">>,
    \* 007
    <<"0", "0", "7">>,
    \* 0x
    <<"0", "x">>
  }

\* /* a /* b */ c */
NestedComment ==
  <<"/", "*", " ", "a", " ", "/", "*", " ", "b", " ", "*", "/", " ", "c", 
    " ", "*", "/">>

\* /* a /* b */ c */ x
NestedCommentThenToken ==
  <<"/", "*", " ", "a", " ", "/", "*", " ", "b", " ", "*", "/", " ", "c", 
    " ", "*", "/", " ", "x">>

\* /* a /* b */ c
UnclosedNestedComment ==
  <<"/", "*", " ", "a", " ", "/", "*", " ", "b", " ", "*", "/", " ", "c">>

\* /* a\nb */ x
CommentOverLines ==
  <<"/", "*", " ", "a", "\n", "b", " ", "*", "/", " ", "x">>

\* sources of several lines
LineSources ==
  {
    \* a\nb\n
    <<"a", "\n", "b", "\n">>,
    \* // c\nx
    <<"/", "/", " ", "c", "\n", "x">>,
    \* "a\nb" c
    <<"\"", "a", "\n", "b", "\"", " ", "c">>,
    \* x \n\n y
    <<"x", " ", "\n", "\n", " ", "y">>
  }

\* short sources
ShortSources ==
  {
    \* (the empty source)
    <<>>,
    \* x
    <<"x">>,
    \* x y
    <<"x", " ", "y">>
  }

\* Lexemes with the text that separates them: Weave(<<"a", "b">>, <<" ">>)
\* is the source "a b".
RECURSIVE Weave(_, _)
Weave(pieces, gaps) ==
  IF Len(pieces) = 1 THEN pieces[1]
  ELSE pieces[1] \o gaps[1] \o Weave(Tail(pieces), Tail(gaps))

\* var x 10, x = 1 and a / b, whose lexemes a space separates
SpacedPieces ==
  {<<<<"v", "a", "r">>, <<"x">>, <<"1", "0">>>>,
   <<<<"x">>, <<"=">>, <<"1">>>>,
   <<<<"a">>, <<"/">>, <<"b">>>>}

\* x=1, f(x and a/b, whose lexemes nothing separates
TightPieces ==
  {<<<<"x">>, <<"=">>, <<"1">>>>,
   <<<<"f">>, <<"(">>, <<"x">>>>,
   <<<<"a">>, <<"/">>, <<"b">>>>}

\* a space, and what it becomes when spaces, tabs and closed block comments
\* are inserted before or behind it
SpaceGaps ==
  {<<" ">>, <<" ", " ">>, <<"\t", " ">>,
   <<" ", "/", "*", "c", "*", "/">>,
   <<"/", "*", "c", "*", "/", " ">>}

\* nothing, and what it becomes when a space, a tab or a closed block
\* comment is inserted
TightGaps ==
  {<<>>, <<" ">>, <<"\t">>, <<"/", "*", "c", "*", "/">>}

WovenSources ==
  {Weave(p, <<g1, g2>>) :
     p \in SpacedPieces, g1 \in SpaceGaps, g2 \in SpaceGaps}
    \cup
  {Weave(p, <<g1, g2>>) :
     p \in TightPieces, g1 \in TightGaps, g2 \in TightGaps}

\* sources with bytes >= 0x80: a two-byte character, a continuation byte
\* and an invalid byte in front of a letter, a continuation byte behind one
HighByteSources ==
  {<<LeadByte, ContinuationByte, " ", "x">>,
   <<ContinuationByte, "a">>,
   <<InvalidByte, "a">>,
   <<"a", ContinuationByte, "_", "1">>,
   <<"_", "a">>}

\* 1.2.3 x
SecondPoint ==
  <<"1", ".", "2", ".", "3", " ", "x">>

\* 1e5e2 x
SecondExponent ==
  <<"1", "e", "5", "e", "2", " ", "x">>

\* "ab" "c"
TwoStrings == <<"\"", "a", "b", "\"", " ", "\"", "c", "\"">>

\* "abcdefg" "h": the first literal is as long as a literal of the lexer.c
\* limit scaled to 8 may be
FullThenShort ==
  <<"\"", "a", "b", "c", "d", "e", "f", "g", "\"", " ", "\"", "h", "\"">>

\* "abcdefghij" "k": the first literal is too long
LongThenShort ==
  <<"\"", "a", "b", "c", "d", "e", "f", "g", "h", "i", "j", "\"", " ",
    "\"", "k", "\"">>

\* "a\q" "b": the first literal holds an unknown escape
BadEscapeThenShort ==
  <<"\"", "a", "\\", "q", "\"", " ", "\"", "b", "\"">>

\* "abcdefgh" "i": the closing quote stands behind the first character that
\* does not fit
OverByOne ==
  <<"\"", "a", "b", "c", "d", "e", "f", "g", "h", "\"", " ", "\"", "i", "\"">>

StringSources ==
  {TwoStrings, FullThenShort, OverByOne, LongThenShort, BadEscapeThenShort}

\* "a\ with nothing behind the backslash
EscapeAtEnd == <<"\"", "a", "\\">>

\* sources that end inside an escape, or with a character behind which the
\* lexer looks one character ahead: "\x4  "\u1  a/  1e  0  1.  /*a*  x <
EndSources ==
  {EscapeAtEnd,
   <<"\"", "\\", "x", "4">>,
   <<"\"", "\\", "u", "1">>,
   <<"a", "/">>,
   <<"1", "e">>,
   <<"0">>,
   <<"1", ".">>,
   <<"/", "*", "a", "*">>,
   <<"x", " ", "<">>}

LexerSources ==
  OperatorSources \cup {Decimal, Hexadecimal, Binary, Float} \cup OtherNumbers
    \cup {SecondPoint, SecondExponent}
    \cup HighByteSources \cup StringSources \cup EndSources
    \cup {NestedComment, NestedCommentThenToken, UnclosedNestedComment,
          CommentOverLines}
    \cup LineSources \cup ShortSources \cup WovenSources

\* strdup(token.value) of lexer_peek_token (lexer.c:755-757): the copy is a
\* block of its own, the block it was copied from stays allocated
clone_token(L, token) ==
  IF token.ptr = 0 THEN [tok |-> token, lexer |-> L]
  ELSE [tok |-> [token EXCEPT !.ptr = L.nalloc + 1],
        lexer |-> [L EXCEPT !.nalloc = @ + 1, !.live = @ \cup {L.nalloc + 1},
                            !.last_text = token.value]]

\* one round of the while loop of lexer_peek_token (lexer.c:751-760)
peek_fill(L) ==
  LET store(c) ==
        [c.lexer EXCEPT !.lookahead[c.lexer.lookahead_pos + 1] = c.tok,
                        !.lookahead_pos = @ + 1]
      clone(r) == store(clone_token(r.lexer, r.tok))
  IN clone(lexer_next(L))

\* the token lexer_peek_token returns for a lookahead out of range
\* (lexer.c:739-749)
PeekErrorToken == Token("TOKEN_ERROR", NullText, 0, 0, 0, 0)

\* what the client notes of a token the call `by` handed it: the token, whether
\* its text is allocated, the cursor and the queue length the call found in
\* L0, and the error, the cursor and the token start it left in L
Delivery(by, tok, L0, L) ==
  [call |-> by, type |-> tok.type, value |-> tok.value,
   int_val |-> tok.int_val, float_val |-> tok.float_val,
   line |-> tok.line, column |-> tok.column, length |-> tok.length,
   valid |-> tok.ptr = 0 \/ tok.ptr \in L.live,
   from |-> L0.position, queued |-> L0.lookahead_pos,
   has_error |-> L.has_error, error_msg |-> L.error_msg,
   start_position |-> L.start_position, position |-> L.position]

LexerInit ==
  /\ source \in LexerSources
  /\ entry = "lexer"
  /\ start = 0
  /\ loaded = 0
  /\ stale_read = "intact"
  /\ double_free = "abort"
  /\ pc = "lex"
  /\ lexer = lexer_create(source)
  /\ parser = ZeroParser
  /\ nodes = <<>>
  /\ trace = ZeroTrace
  /\ statements = 0
  /\ last_stmt = 0
  /\ ast = 0
  /\ delivered = <<>>
  /\ peek = NoPeek
  /\ calls = 0

\* the variables of the parser's run, which a client of the lexer leaves alone
run == <<start, loaded, entry, stale_read, double_free, parser, nodes, trace,
         statements, last_stmt, ast>>

\* Token t = lexer_next(lexer)
CallNext ==
  /\ pc = "lex"
  /\ calls < MaxCalls
  /\ \E r \in {lexer_next(lexer)} :
       /\ lexer' = r.lexer
       /\ delivered' = Append(delivered, Delivery("next", r.tok, lexer, r.lexer))
  /\ calls' = calls + 1
  /\ UNCHANGED <<source, run, pc, peek>>

\* lexer_skip(lexer); Token t = lexer_current(lexer)
CallSkip ==
  /\ pc = "lex"
  /\ calls < MaxCalls
  /\ \E L \in {lexer_skip(lexer)} :
       /\ lexer' = L
       /\ delivered' =
            Append(delivered, Delivery("skip", lexer_current(L), lexer, L))
  /\ calls' = calls + 1
  /\ UNCHANGED <<source, run, pc, peek>>

\* lexer_peek_token(lexer, k) is entered: out of range it returns the error
\* token, in range it goes to its loop
CallPeekToken ==
  /\ pc = "lex"
  /\ calls < MaxCalls
  /\ \E k \in 0..MAX_LOOKAHEAD :
       IF k >= MAX_LOOKAHEAD
       THEN /\ peek' = [k |-> k, at |-> Len(delivered), fills |-> 0,
                        returned |-> TRUE, result |-> PeekErrorToken]
            /\ pc' = "lex"
       ELSE /\ peek' = [k |-> k, at |-> Len(delivered), fills |-> 0,
                        returned |-> FALSE, result |-> ZeroToken]
            /\ pc' = "peek"
  /\ calls' = calls + 1
  /\ UNCHANGED <<source, run, lexer, delivered>>

\* lexer_peek_token, a round of its loop
PeekTokenFill ==
  /\ pc = "peek"
  /\ lexer.lookahead_pos <= peek.k
  /\ peek.fills < MaxFills
  /\ lexer' = peek_fill(lexer)
  /\ peek' = [peek EXCEPT !.fills = @ + 1]
  /\ UNCHANGED <<source, run, pc, delivered, calls>>

\* lexer_peek_token, return lexer->lookahead[lookahead]
PeekTokenReturn ==
  /\ pc = "peek"
  /\ lexer.lookahead_pos > peek.k
  /\ peek' = [peek EXCEPT !.returned = TRUE,
                          !.result = lexer.lookahead[peek.k + 1]]
  /\ pc' = "lex"
  /\ UNCHANGED <<source, run, lexer, delivered, calls>>

LexerNext ==
  \/ CallNext
  \/ CallSkip
  \/ CallPeekToken
  \/ PeekTokenFill
  \/ PeekTokenReturn

LexerSpec == LexerInit /\ [][LexerNext]_vars

\* ------------------------------------------------------------- properties
\* the nodes of the list that starts at node p of heap H
RECURSIVE ListOf(_, _)
ListOf(H, p) == IF p = 0 THEN <<>> ELSE <<p>> \o ListOf(H, H[p].next)

IsProgram(H, p) == p # 0 /\ H[p].type = "NODE_PROGRAM"

IsIntLiteral(H, p, v) ==
  /\ p # 0
  /\ H[p].type = "NODE_LITERAL"
  /\ H[p].data_type = "TYPE_INT"
  /\ H[p].int_val = v

IsVarDecl(H, p, name) ==
  p # 0 /\ H[p].type = "NODE_VAR_DECL" /\ H[p].name = name

IsBinary(H, p, op) ==
  p # 0 /\ H[p].type = "NODE_BINARY_EXPR" /\ H[p].op = op

\* a block of exactly one statement, an expression statement that is a call
IsOneCallBlock(H, p) ==
  /\ p # 0
  /\ H[p].type = "NODE_BLOCK"
  /\ LET l == ListOf(H, H[p].statements)
     IN /\ Len(l) = 1
        /\ H[l[1]].type = "NODE_EXPR_STMT"
        /\ H[l[1]].left # 0
        /\ H[H[l[1]].left].type = "NODE_CALL_EXPR"

\* the run has returned from parse_source
Returned == pc = "done"

\* the run has ended, by return or by crash
Terminated == pc \in {"done", "crashed"}

\* the run was given the whole source: parse_source, or parse_program
\* started at the first token
WholeSource == start <= 1

VarLines == {VarLines1, VarLines2, VarLines3}

\* the declarations the lines of a source of VarLines state
Declared(src) ==
  CASE src = VarLines1 -> <<[name |-> <<"x">>, value |-> 10]>>
    [] src = VarLines2 -> <<[name |-> <<"x">>, value |-> 10],
                            [name |-> <<"y">>, value |-> 20]>>
    [] src = VarLines3 -> <<[name |-> <<"a">>, value |-> 1],
                            [name |-> <<"b">>, value |-> 2],
                            [name |-> <<"c">>, value |-> 3]>>

HasDeclarations(H, root, decls) ==
  /\ IsProgram(H, root)
  /\ LET l == ListOf(H, H[root].statements)
     IN /\ Len(l) = Len(decls)
        /\ \A i \in 1..Len(l) :
             /\ IsVarDecl(H, l[i], decls[i].name)
             /\ IsIntLiteral(H, H[l[i]].value, decls[i].value)

\* C1: parse_source on n >= 1 lines "var <identifier> = <integer>" returns a
\* PROGRAM root whose statement list holds exactly the n var-decl nodes, in
\* source order, each with the name and the value of its line.
C1_VarDeclarationsParsed ==
  (Returned /\ entry = "parse_source" /\ source \in VarLines)
    => HasDeclarations(nodes, ast, Declared(source))

\* C2: when the parser's failure flag is set as parse_program returns,
\* parse_source returns no root; it returns a root only when the flag is
\* clear.
C2_AllOrNothing ==
  Returned => /\ parser.has_error => ast = 0
              /\ ast # 0 => ~parser.has_error

\* a run that had built statements returns failure
C2_FailureDropsTree ==
  Returned /\ parser.has_error /\ statements # 0 /\ ast = 0

MalformedThenWellFormed == {MissingName, MissingValue}

\* C4: for a malformed line followed by a well-formed line parse_source
\* returns failure and parser_error is invoked exactly once.
C4_ErrorContainment ==
  (Returned /\ WholeSource /\ source \in MalformedThenWellFormed)
    => (ast = 0 /\ trace.errors = 1)

\* an iteration of the program loop or of its recovery loop passes a token,
\* or leaves the program loop for a recovery loop that will pass one
LoopProgress ==
  /\ (pc = "program" /\ pc' = "program")
       => trace'.consumed > trace.consumed
  /\ (pc = "recover" /\ pc' = "recover")
       => trace'.consumed > trace.consumed
  /\ (pc = "program" /\ pc' = "recover")
       => (trace'.consumed > trace.consumed \/ recovering(Mem)')

\* where the run stands between two tokens: before a statement, in the
\* recovery loop, or at the NEWLINE or EOF that ends a line
Phase ==
  IF pc = "recover" THEN 1
  ELSE IF ~recovering(Mem) THEN 2
  ELSE 0

\* a number that every step of a run raises and that the length of the
\* source bounds
Rank ==
  CASE pc = "start" -> 0
    [] pc = "create" -> 1 + loaded
    [] pc \in {"program", "recover"} ->
         MaxStart + 2 + 3 * trace.consumed + Phase
    [] pc = "check" -> MaxStart + 2 + 3 * (Len(source) + 1)
    [] pc = "cleanup" -> MaxStart + 3 + 3 * (Len(source) + 1)
    [] OTHER -> MaxStart + 4 + 3 * (Len(source) + 1)

\* a step of the run can be taken: the guards of the actions at each position
CanStep ==
  \/ pc = "start"
  \/ pc = "create" /\ loaded <= start
  \/ pc = "program" /\ parser_check(Mem, "TOKEN_EOF")
  \/ pc = "program" /\ parser_check(Mem, "TOKEN_NEWLINE")
  \/ pc = "program" /\ recovering(Mem)
  \/ pc = "recover"
  \/ pc \in {"check", "cleanup"}

\* C5: parse_program started at any position terminates; every iteration of
\* the program loop, of the block loop and of the recovery loops passes at
\* least one token or stops at EOF.  Termination is stated by Rank: the
\* run is never stuck before its end, and each step raises the bounded Rank.
C5_Termination ==
  /\ [](~trace.stalled)
  /\ [](trace.consumed <= Len(source))
  /\ [](Terminated \/ CanStep)
  /\ [][LoopProgress /\ Rank' > Rank]_vars

\* a run through block loops and recovery loops has returned
C5_ReturnedAfterRecovery ==
  Returned /\ source = IfElse /\ start = 1 /\ parser.has_error

\* C6: no token text the parser dereferences is NULL, in particular the
\* operator text whose length parse_assignment takes.
C6_NoNullDereference == ~trace.null_deref

\* C7: "var x = 10 + 20 * 3" parses to a var-decl of x whose value is
\* +(10, *(20, 3)).
C7_Precedence ==
  (Returned /\ WholeSource /\ source = Precedence)
    => /\ IsProgram(nodes, ast)
       /\ LET l == ListOf(nodes, nodes[ast].statements)
              sum == nodes[l[1]].value
              product == nodes[sum].right
          IN /\ Len(l) = 1
             /\ IsVarDecl(nodes, l[1], <<"x">>)
             /\ IsBinary(nodes, sum, <<"+">>)
             /\ IsIntLiteral(nodes, nodes[sum].left, 10)
             /\ IsBinary(nodes, product, <<"*">>)
             /\ IsIntLiteral(nodes, nodes[product].left, 20)
             /\ IsIntLiteral(nodes, nodes[product].right, 3)

\* C8: "if (x > 5) { console(1) } else { console(2) }" parses without error
\* to an if statement with a ">" condition whose then and else branches are
\* blocks of one call statement each.
C8_IfElse ==
  (Returned /\ WholeSource /\ source = IfElse)
    => /\ ~parser.has_error
       /\ IsProgram(nodes, ast)
       /\ LET l == ListOf(nodes, nodes[ast].statements)
          IN /\ Len(l) = 1
             /\ nodes[l[1]].type = "NODE_IF_STMT"
             /\ IsBinary(nodes, nodes[l[1]].condition, <<">">>)
             /\ IsOneCallBlock(nodes, nodes[l[1]].then_branch)
             /\ IsOneCallBlock(nodes, nodes[l[1]].else_branch)

IsFromImport(H, root, module, imports, import_all) ==
  /\ IsProgram(H, root)
  /\ LET l == ListOf(H, H[root].statements)
     IN /\ Len(l) = 1
        /\ H[l[1]].type = "NODE_FROM_IMPORT"
        /\ H[l[1]].name = module
        /\ H[l[1]].imports = imports
        /\ H[l[1]].import_all = import_all

\* C9: "from math using sin, cos, PI" parses to a from-import of module math
\* with the imports sin, cos, PI and import_all false; "from m using *"
\* parses to one with import_all true.
C9_FromImport ==
  /\ (Returned /\ WholeSource /\ source = FromImport)
       => IsFromImport(nodes, ast, <<"m", "a", "t", "h">>,
                       <<<<"s", "i", "n">>, <<"c", "o", "s">>, <<"P", "I">>>>,
                       FALSE)
  /\ (Returned /\ WholeSource /\ source = FromImportAll)
       => IsFromImport(nodes, ast, <<"m">>, <<>>, TRUE)

\* C10: on a source whose string literal is not closed before EOF the lexer
\* records the unclosed-string error, and parse_source reports failure
\* without crashing.
C10_UnclosedString ==
  (Terminated /\ WholeSource /\ source = UnclosedString)
    => /\ Returned
       /\ ast = 0
       /\ lexer.has_error
       /\ lexer.error_msg = "Unclosed string"

\* the text of at most n characters that stands at offset i of the source
TextAt(i, n) ==
  SubSeq(source, i + 1, IF i + n <= Len(source) THEN i + n ELSE Len(source))

\* the two-character entries of the operator table
TwoCharacterOperators ==
  {operator_table[i] : i \in {j \in 1..Len(operator_table) :
                                Len(operator_table[j]) = 2}}

\* C11: longest match. Whenever lexer_next scans with a two-character operator
\* of the table at the cursor, it returns one OPERATOR token whose text is that
\* operator and leaves the cursor two characters further; the one-character
\* prefix is never a token of its own.
C11_LongestMatch ==
  \A i \in 1..Len(delivered) :
    LET d == delivered[i] IN
    (/\ d.call = "next"
     /\ d.queued = 0
     /\ TextAt(d.from, 2) \in TwoCharacterOperators)
      => /\ d.type = "TOKEN_OPERATOR"
         /\ d.value = TextAt(d.from, 2)
         /\ d.position = d.from + 2

\* lexer_next met == with a further = behind it and returned ==
C11_TwoCharacterOperatorScanned ==
  \E i \in 1..Len(delivered) :
    /\ delivered[i].call = "next"
    /\ delivered[i].queued = 0
    /\ TextAt(delivered[i].from, 3) = <<"=", "=", "=">>
    /\ delivered[i].value = <<"=", "=">>
    /\ delivered[i].position = delivered[i].from + 2

\* the number that the digits of text denote in the base
RECURSIVE Denotes(_, _)
Denotes(text, base) ==
  IF text = <<>> THEN 0
  ELSE Denotes(SubSeq(text, 1, Len(text) - 1), base) * base
         + DigitValue(text[Len(text)])

\* text is one digit of the base or more
IsDigits(text, base) ==
  /\ text # <<>>
  /\ \A i \in 1..Len(text) : DigitValue(text[i]) < base

\* text is prefix 0 and one of the markers, then digits of the base
IsPrefixed(text, markers, base) ==
  /\ Len(text) >= 3
  /\ text[1] = "0"
  /\ text[2] \in markers
  /\ IsDigits(SubSeq(text, 3, Len(text)), base)

\* text is digits, then a fraction or an exponent or both
IsFloatLiteral(text) ==
  \E w \in 1..Len(text) :
    \E f \in 0..(Len(text) - w) :
      LET rest == SubSeq(text, w + f + 1, Len(text))
          sign == IF Len(rest) >= 2 /\ rest[2] \in {"+", "-"} THEN 1 ELSE 0
      IN /\ IsDigits(SubSeq(text, 1, w), 10)
         /\ f # 1
         /\ f >= 2 => /\ text[w + 1] = "."
                      /\ IsDigits(SubSeq(text, w + 2, w + f), 10)
         /\ rest # <<>> => /\ rest[1] \in {"e", "E"}
                           /\ IsDigits(SubSeq(rest, 2 + sign, Len(rest)), 10)
         /\ f >= 2 \/ rest # <<>>

\* the token of the first call, which was lexer_next, when it has returned
FirstNext(d) ==
  /\ delivered # <<>>
  /\ delivered[1].call = "next"
  /\ delivered[1].queued = 0
  /\ d = delivered[1]

\* C12: numeric round trip. For a source that is one number literal, the first
\* lexer_next returns the literal as one token: decimal digits as an integer
\* token with their decimal value, a 0x/0X literal as an integer token with
\* its hexadecimal value, a 0b/0B literal as an integer token with the binary
\* value of the digits behind the prefix, and a literal with a fraction or an
\* exponent as a float token converted from the whole literal.
C12_NumericRoundTrip ==
  \A d \in {delivered[i] : i \in 1..Len(delivered)} :
    FirstNext(d) =>
      /\ IsDigits(source, 10) =>
            /\ d.type = "TOKEN_NUMBER_INT"
            /\ d.value = source
            /\ d.int_val = Denotes(source, 10)
      /\ IsPrefixed(source, {"x", "X"}, 16) =>
            /\ d.type = "TOKEN_NUMBER_INT"
            /\ d.value = source
            /\ d.int_val = Denotes(SubSeq(source, 3, Len(source)), 16)
      /\ IsPrefixed(source, {"b", "B"}, 2) =>
            /\ d.type = "TOKEN_NUMBER_INT"
            /\ d.value = source
            /\ d.int_val = Denotes(SubSeq(source, 3, Len(source)), 2)
      /\ IsFloatLiteral(source) =>
            /\ d.type = "TOKEN_NUMBER_FLOAT"
            /\ d.value = source
            /\ d.float_val = source

\* 0b1010 was returned as the integer 10
C12_BinaryScanned ==
  /\ source = Binary
  /\ \E d \in {delivered[i] : i \in 1..Len(delivered)} :
       /\ FirstNext(d)
       /\ d.type = "TOKEN_NUMBER_INT"
       /\ d.int_val = 10

\* the kind and the text of a token
Kind(tok) == [type |-> tok.type, value |-> tok.value]

\* the kinds and texts of the tokens n calls of lexer_next alone return
RECURSIVE next_alone(_, _)
next_alone(L, n) ==
  LET rest(r) == <<Kind(r.tok)>> \o next_alone(r.lexer, n - 1)
  IN IF n = 0 THEN <<>> ELSE rest(lexer_next(L))

\* the kinds and texts of the tokens the client was handed
RECURSIVE Kinds(_)
Kinds(tokens) ==
  IF tokens = <<>> THEN <<>> ELSE <<Kind(Head(tokens))>> \o Kinds(Tail(tokens))

Delivered == Kinds(delivered)

\* the client has called lexer_next and nothing else
OnlyNext ==
  /\ peek = NoPeek
  /\ Len(delivered) = calls
  /\ \A i \in 1..Len(delivered) : delivered[i].call = "next"

\* the source is the pieces woven with gaps drawn from among, and the tokens
\* handed out so far are those of the pieces woven with the gap plain
SameTokensAs(pieces, plain, among, excepted(_, _)) ==
  \A g1, g2 \in among :
    (/\ source = Weave(pieces, <<g1, g2>>)
     /\ ~excepted(pieces, <<g1, g2>>))
      => Delivered = next_alone(lexer_create(Weave(pieces, <<plain, plain>>)),
                                Len(delivered))

\* no insertion is excepted
NoGaps(pieces, gaps) == FALSE

\* a block comment stands directly behind a lexeme that ends in /
CommentBehindSlash(pieces, gaps) ==
  \E i \in 1..Len(gaps) :
    /\ pieces[i][Len(pieces[i])] = "/"
    /\ gaps[i] # <<>>
    /\ gaps[i][1] = "/"

\* C13: comment idempotence. Extra spaces, tabs and closed block comments
\* inserted between two adjacent tokens leave the kinds and texts of the
\* tokens that repeated lexer_next returns unchanged.
C13_CommentIdempotence ==
  OnlyNext =>
    /\ \A p \in SpacedPieces : SameTokensAs(p, <<" ">>, SpaceGaps, NoGaps)
    /\ \A p \in TightPieces : SameTokensAs(p, <<>>, TightGaps, NoGaps)

\* C13 as the lexer keeps it: extra spaces, tabs and closed block comments
\* inserted between two adjacent tokens leave the kinds and texts of the
\* tokens unchanged, unless a comment is put directly behind a token that
\* ends in /, where the / and the comment's opening / read as the start of a
\* line comment.
C13_IdempotenceExceptBehindSlash ==
  OnlyNext =>
    /\ \A p \in SpacedPieces :
         SameTokensAs(p, <<" ">>, SpaceGaps, CommentBehindSlash)
    /\ \A p \in TightPieces :
         SameTokensAs(p, <<>>, TightGaps, CommentBehindSlash)

\* x=1 with a comment behind x and a tab behind = gave the three tokens of
\* x=1
C13_CommentAndTabSkipped ==
  /\ OnlyNext
  /\ source = <<"x", "/", "*", "c", "*", "/", "=", "\t", "1">>
  /\ Delivered = <<[type |-> "TOKEN_IDENTIFIER", value |-> <<"x">>],
                   [type |-> "TOKEN_OPERATOR", value |-> <<"=">>],
                   [type |-> "TOKEN_NUMBER_INT", value |-> <<"1">>]>>

\* The offset behind the */ that brings the depth of the comment to 0, when
\* the text from offset i on is read at that depth; -1 when the text ends
\* first.
RECURSIVE CommentClose(_, _, _)
CommentClose(text, i, depth) ==
  IF depth = 0 THEN i
  ELSE IF i >= Len(text) THEN -1
  ELSE IF i + 2 <= Len(text) /\ text[i + 1] = "/" /\ text[i + 2] = "*"
  THEN CommentClose(text, i + 2, depth + 1)
  ELSE IF i + 2 <= Len(text) /\ text[i + 1] = "*" /\ text[i + 2] = "/"
  THEN CommentClose(text, i + 2, depth - 1)
  ELSE CommentClose(text, i + 1, depth)

\* the source begins with the opening of a block comment
OpensComment == TextAt(0, 2) = <<"/", "*">>

\* C14: nested block comments. Every /* raises the depth of a block comment
\* and every */ lowers it: the first lexer_next on a source that opens with a
\* comment returns a token that starts behind the */ that brings the depth to
\* 0 (EOF for /* a /* b */ c */, with no error), and when the source ends at
\* a depth above 0 it records the error of the unclosed comment.
C14_NestedComments ==
  \A d \in {delivered[i] : i \in 1..Len(delivered)} :
    (FirstNext(d) /\ OpensComment) =>
      LET close == CommentClose(source, 2, 1) IN
      /\ close >= 0 =>
            /\ d.error_msg # "Unclosed multi-line comment"
            /\ IF d.type = "TOKEN_EOF" THEN d.position = Len(source)
               ELSE d.start_position >= close
      /\ close < 0 =>
            /\ d.type = "TOKEN_EOF"
            /\ d.has_error
            /\ d.error_msg = "Unclosed multi-line comment"
      /\ source = NestedComment =>
            /\ d.type = "TOKEN_EOF"
            /\ ~d.has_error

\* /* a /* b */ c */ was consumed whole and gave EOF
C14_NestedCommentSkipped ==
  /\ source = NestedComment
  /\ CommentClose(source, 2, 1) = Len(source)
  /\ \E d \in {delivered[i] : i \in 1..Len(delivered)} :
       /\ FirstNext(d)
       /\ d.type = "TOKEN_EOF"
       /\ d.position = Len(source)
       /\ ~d.has_error

\* the calls of lexer_next that returned an EOF token
EofDeliveries ==
  {i \in 1..Len(delivered) :
     delivered[i].call = "next" /\ delivered[i].type = "TOKEN_EOF"}

\* lexer_next after the EOF token of call i returns EOF and leaves the cursor
NextAfterEof(i) ==
  \A j \in (i + 1)..Len(delivered) :
    delivered[j].call = "next" =>
      /\ delivered[j].type = "TOKEN_EOF"
      /\ delivered[j].position = delivered[i].position

\* lexer_peek_token(k), called with k in range after the EOF token of call i,
\* has the token to return after k + 1 rounds of its loop, returns an EOF
\* token and leaves the cursor
PeekAfterEof(i) ==
  (peek # NoPeek /\ peek.at >= i /\ peek.k < MAX_LOOKAHEAD) =>
    /\ (pc = "peek" /\ peek.fills >= peek.k + 1) => lexer.lookahead_pos > peek.k
    /\ peek.returned => peek.result.type = "TOKEN_EOF"
    /\ lexer.position = delivered[i].position

\* C15: EOF is idempotent. Once lexer_next has returned an EOF token, every
\* later lexer_next and every later lexer_peek_token returns an EOF token, and
\* the cursor no longer moves.
C15_EofIdempotent ==
  \A i \in EofDeliveries :
    /\ NextAfterEof(i)
    /\ PeekAfterEof(i)
    /\ lexer.position = delivered[i].position

\* lexer_peek_token(k) with k in range has the token to return after k + 1
\* rounds of its loop
PeekReturns ==
  (pc = "peek" /\ peek.fills >= peek.k + 1) => lexer.lookahead_pos > peek.k

\* the token lexer_peek_token(k) returned is the one that the (k+1)-th
\* lexer_next behind the tokens handed out before the call returns
PeekIsUpcoming ==
  (peek.returned /\ peek.k < MAX_LOOKAHEAD) =>
    \E upcoming \in {next_alone(lexer_create(source), peek.at + peek.k + 1)} :
      Kind(peek.result) = upcoming[peek.at + peek.k + 1]

\* the tokens handed out by lexer_next and by lexer_skip with lexer_current
\* are the tokens lexer_next alone returns
DeliveredAsNextAlone ==
  Delivered = next_alone(lexer_create(source), Len(delivered))

\* the texts of the queued tokens and of the token a peek returned and that
\* is still queued are allocated, and so was every text when it was handed out
QueuedTextsValid ==
  /\ \A i \in 1..lexer.lookahead_pos :
       lexer.lookahead[i].ptr = 0 \/ lexer.lookahead[i].ptr \in lexer.live
  /\ (peek.returned /\ peek.at = Len(delivered)) =>
       peek.result.ptr = 0 \/ peek.result.ptr \in lexer.live
  /\ \A i \in 1..Len(delivered) : delivered[i].valid

\* C16: peek does not consume. lexer_peek_token(k), k in {0, 1}, returns the
\* token that the (k+1)-th following lexer_next returns; however peeks are
\* interleaved with lexer_next and lexer_skip, the tokens handed out are those
\* lexer_next alone returns on the source; and the text of a queued token
\* stays allocated until the token is handed out.
C16_PeekDoesNotConsume ==
  /\ PeekReturns
  /\ PeekIsUpcoming
  /\ DeliveredAsNextAlone
  /\ QueuedTextsValid

\* the newlines among the first n characters of the source
RECURSIVE Newlines(_)
Newlines(n) ==
  IF n = 0 THEN 0
  ELSE Newlines(n - 1) + (IF source[n] = "\n" THEN 1 ELSE 0)

\* C17: line tracking. The line counter is 1 plus the newlines consumed so
\* far, also when a newline stands inside a block comment; the column is 1
\* behind a consumed newline; and the line of every scanned token is the
\* source line of its first character.
C17_LineTracking ==
  /\ lexer.line = 1 + Newlines(lexer.position)
  /\ (lexer.position > 0 /\ source[lexer.position] = "\n") => lexer.column = 1
  /\ \A i \in 1..Len(delivered) :
       (/\ delivered[i].call = "next"
        /\ delivered[i].queued = 0
        /\ delivered[i].type # "TOKEN_EOF")
         => delivered[i].line = 1 + Newlines(delivered[i].start_position)

\* the sources whose first statement is a compound assignment
CompoundSources == {CompoundThenTwoValues, CompoundAssignment}

\* C18: compound assignment is rejected. When parse_assignment has met += behind
\* a left-hand side, the parser's failure flag is set and no assignment node
\* has been made, whatever follows the operator.
C18_CompoundRejected ==
  (Returned /\ start = 1 /\ source \in CompoundSources) =>
    /\ parser.has_error
    /\ \A n \in 1..Len(nodes) : nodes[n].type # "NODE_ASSIGNMENT"

\* the nodes that the child fields and the next link of node n name
Children(n) ==
  {n.next, n.value, n.condition, n.then_branch, n.else_branch,
   n.elif_branches, n.iterable, n.body, n.statements, n.left, n.right,
   n.operand, n.target, n.callee, n.arguments, n.elements, n.values,
   n.object} \ {0}

\* the nodes reachable from the nodes of S
RECURSIVE Reachable(_)
Reachable(S) ==
  LET further == S \cup UNION {Children(nodes[n]) : n \in S}
  IN IF further = S THEN S ELSE Reachable(further)

\* the root that parse_program has built
ProgramRoots == {n \in 1..Len(nodes) : nodes[n].type = "NODE_PROGRAM"}

\* parse_source has found the failure flag set and torn the tree down
TornDown == pc \in {"cleanup", "done", "crashed"} /\ parser.has_error

\* C19: teardown frees exactly once. After free_ast_node on the root of the
\* tree the parser has built, every node reachable from the root through
\* child fields and next links has been freed once, neither twice nor not at
\* all, also when a list holds two nodes or more.
C19_FreedExactlyOnce ==
  TornDown => \A n \in Reachable(ProgramRoots) : nodes[n].freed = 1

\* the integer literals of the chain that starts at node p, in chain order
RECURSIVE LiteralsOf(_)
LiteralsOf(p) ==
  IF p = 0 THEN <<>> ELSE <<nodes[p].int_val>> \o LiteralsOf(nodes[p].next)

\* the call nodes and the array literal nodes of the heap
CallNodes == {n \in 1..Len(nodes) : nodes[n].type = "NODE_CALL_EXPR"}
ArrayNodes == {n \in 1..Len(nodes) : nodes[n].type = "NODE_ARRAY_LITERAL"}

\* C20: ordered argument and element lists. The node parse_primary builds for
\* a call with n arguments or an array literal with n elements anchors a next
\* chain of exactly n expression nodes in source order, and its count field
\* is n: f(1, 2, 3) has the arguments 1, 2, 3 and [1, 2] the elements 1, 2.
C20_OrderedLists ==
  (Returned /\ start = 1 /\ ~parser.has_error) =>
    /\ \A n \in CallNodes :
         Len(ListOf(nodes, nodes[n].arguments)) = nodes[n].arg_count
    /\ \A n \in ArrayNodes :
         Len(ListOf(nodes, nodes[n].elements)) = nodes[n].element_count
    /\ source = CallOfThree =>
         \E n \in CallNodes :
           /\ nodes[n].arg_count = 3
           /\ LiteralsOf(nodes[n].arguments) = <<1, 2, 3>>
    /\ source = ArrayOfTwo =>
         \E n \in ArrayNodes :
           /\ nodes[n].element_count = 2
           /\ LiteralsOf(nodes[n].elements) = <<1, 2>>

\* the if nodes of the heap
IfNodes == {n \in 1..Len(nodes) : nodes[n].type = "NODE_IF_STMT"}

\* the names of the identifiers that are the conditions of the chain of elif
\* nodes that starts at node p, in chain order
RECURSIVE ElifConditions(_)
ElifConditions(p) ==
  IF p = 0 THEN <<>>
  ELSE <<nodes[nodes[p].condition].identifier>>
         \o ElifConditions(nodes[p].next)

\* the elif clauses the sources state
ElifsOf(src) ==
  CASE src = IfElif -> <<<<"c">>>>
    [] src = IfElifElif -> <<<<"c">>, <<"e">>>>

\* C21: elif sequence. An if statement followed by k >= 1 well-formed elif
\* clauses parses to an if node whose elif list holds exactly the k elif
\* nodes in source order.
C21_ElifSequence ==
  (Returned /\ start = 1 /\ source \in {IfElif, IfElifElif}) =>
    \E n \in IfNodes :
      /\ nodes[n].freed = 0
      /\ ElifConditions(nodes[n].elif_branches) = ElifsOf(source)

\* the source opens a string literal in which a literal newline stands before
\* any closing quote and any escape
NewlineInString ==
  /\ TextAt(0, 1) = <<"\"">>
  /\ \E i \in 2..Len(source) :
       /\ source[i] = "\n"
       /\ \A j \in 2..(i - 1) : source[j] \notin {"\"", "\\"}

\* C22: a string literal with a literal newline before the closing quote is
\* an unclosed string: lexer_next records the error and returns an error
\* token, never a STRING token whose text holds the newline.
C22_NewlineEndsString ==
  \A d \in {delivered[i] : i \in 1..Len(delivered)} :
    (FirstNext(d) /\ NewlineInString) =>
      /\ d.type = "TOKEN_ERROR"
      /\ d.has_error
      /\ d.error_msg = "Unclosed string"

\* the offset behind the run of digits, points and exponent markers that
\* stands at offset i of the source
RECURSIVE RunEnd(_)
RunEnd(i) ==
  IF /\ i < Len(source)
     /\ isdigit(source[i + 1]) \/ source[i + 1] \in {".", "e", "E"}
  THEN RunEnd(i + 1)
  ELSE i

\* how many of the first n characters of the source are among marks
RECURSIVE Count(_, _)
Count(marks, n) ==
  IF n = 0 THEN 0
  ELSE Count(marks, n - 1) + (IF source[n] \in marks THEN 1 ELSE 0)

\* the source opens with a decimal literal that holds a second point or a
\* second exponent marker
MalformedNumber ==
  /\ source # <<>>
  /\ isdigit(source[1])
  /\ ~(source[1] = "0" /\ TextAt(1, 1) \in {<<"x">>, <<"X">>, <<"b">>, <<"B">>})
  /\ \/ Count({"."}, RunEnd(0)) >= 2
     \/ Count({"e", "E"}, RunEnd(0)) >= 2

\* C23: a decimal literal with a second point or a second exponent marker
\* records the error of the invalid number format and is still consumed
\* whole, as one token: the cursor stands behind the malformed run.
C23_MalformedRunConsumed ==
  \A d \in {delivered[i] : i \in 1..Len(delivered)} :
    (FirstNext(d) /\ MalformedNumber) =>
      /\ d.has_error
      /\ d.error_msg = "Invalid number format"
      /\ d.position = RunEnd(0)

\* the offset behind the run of ASCII alphanumerics, underscores and bytes
\* >= 0x80 that stands at offset i of the source
RECURSIVE NameEnd(_)
NameEnd(i) ==
  IF /\ i < Len(source)
     /\ isalnum(source[i + 1]) \/ source[i + 1] \in {"_"} \cup HighBytes
  THEN NameEnd(i + 1)
  ELSE i

\* the source opens with an ASCII letter, an underscore or a byte >= 0x80
OpensName ==
  /\ source # <<>>
  /\ isalpha(source[1]) \/ source[1] \in {"_"} \cup HighBytes

\* C24: identifier start. An ASCII letter, an underscore or any byte >= 0x80
\* at the start of a token begins an identifier that runs over alphanumerics,
\* underscores and bytes >= 0x80; no byte >= 0x80 is reported as an unknown
\* character.
C24_IdentifierStart ==
  \A d \in {delivered[i] : i \in 1..Len(delivered)} :
    (FirstNext(d) /\ OpensName) =>
      /\ d.type # "TOKEN_ERROR"
      /\ d.error_msg # "Unknown character"
      /\ d.position = NameEnd(0)

\* node p is the identifier name
IsIdentifier(p, name) ==
  p # 0 /\ nodes[p].type = "NODE_IDENTIFIER" /\ nodes[p].identifier = name

\* the heap holds a live binary node op over the identifiers a and b
HasBinary(op) ==
  \E n \in 1..Len(nodes) :
    /\ IsBinary(nodes, n, op)
    /\ nodes[n].freed = 0
    /\ IsIdentifier(nodes[n].left, <<"a">>)
    /\ IsIdentifier(nodes[n].right, <<"b">>)

\* the heap holds a live unary node op over the identifier a
HasUnary(op) ==
  \E n \in 1..Len(nodes) :
    /\ nodes[n].type = "NODE_UNARY_EXPR"
    /\ nodes[n].op = op
    /\ nodes[n].freed = 0
    /\ IsIdentifier(nodes[n].operand, <<"a">>)

\* C25: the keyword operators are accepted where their symbolic forms are.
\* a or b and a || b parse to a logical-or node over a and b, a and b and
\* a && b to a logical-and node, not a and !a to a unary node over a, with no
\* error.
C25_KeywordOperators ==
  (Returned /\ start = 1) =>
    /\ source = KeywordOr => ~parser.has_error /\ HasBinary(<<"o", "r">>)
    /\ source = KeywordAnd => ~parser.has_error /\ HasBinary(<<"a", "n", "d">>)
    /\ source = KeywordNot => ~parser.has_error /\ HasUnary(<<"n", "o", "t">>)
    /\ source = SymbolOr => ~parser.has_error /\ HasBinary(<<"|", "|">>)
    /\ source = SymbolAnd => ~parser.has_error /\ HasBinary(<<"&", "&">>)
    /\ source = SymbolNot => ~parser.has_error /\ HasUnary(<<"!">>)

\* the const declarations of the heap
ConstDecls ==
  {n \in 1..Len(nodes) : nodes[n].type \in {"NODE_VAR_DECL", "NODE_CONST_DECL"}
                           /\ nodes[n].is_const}

\* C26: const declaration. const c = 1 parses to a const declaration of c
\* with the value 1 and without the failure flag; const c 1, where the = is
\* missing, sets the failure flag and yields no declaration.
C26_ConstDecl ==
  (Returned /\ start = 1) =>
    /\ source = ConstDecl =>
         /\ ~parser.has_error
         /\ \E n \in ConstDecls :
              /\ nodes[n].name = <<"c">>
              /\ IsIntLiteral(nodes, nodes[n].value, 1)
    /\ source = ConstWithoutEquals =>
         /\ parser.has_error
         /\ ConstDecls = {}

\* the heap holds op2(op1(a, b), c) over integer literals
LeftGrouped(op1, a, b, op2, c) ==
  \E n \in 1..Len(nodes) :
    /\ IsBinary(nodes, n, op2)
    /\ IsBinary(nodes, nodes[n].left, op1)
    /\ IsIntLiteral(nodes, nodes[nodes[n].left].left, a)
    /\ IsIntLiteral(nodes, nodes[nodes[n].left].right, b)
    /\ IsIntLiteral(nodes, nodes[n].right, c)

\* C27: two binary operators of one level group to the left, each node holds
\* its own operator's lexeme and its two operands, and no operand is skipped:
\* 7 - 2 - 1, 8 * 2 / 4 and 1 < 2 > 3 parse without error to
\* -(-(7, 2), 1), /(*(8, 2), 4) and >(<(1, 2), 3).
C27_LeftAssociative ==
  (Returned /\ start = 1) =>
    /\ source = AdditiveChain =>
         ~parser.has_error /\ LeftGrouped(<<"-">>, 7, 2, <<"-">>, 1)
    /\ source = MultiplicativeChain =>
         ~parser.has_error /\ LeftGrouped(<<"*">>, 8, 2, <<"/">>, 4)
    /\ source = ComparisonChain =>
         ~parser.has_error /\ LeftGrouped(<<"<">>, 1, 2, <<">">>, 3)

\* C28: no token text is read after the lexer has freed it: neither the text
\* of a token a rule copied before advancing, nor the text of the parser's
\* current token.
C28_NoUseOfFreedText == ~trace.stale_reads

\* the first n characters of s, or s if it is shorter
Prefix(s, n) == SubSeq(s, 1, IF Len(s) < n THEN Len(s) ELSE n)

\* the characters between the quotes of the literal that delivery d scanned
Literal(d) == SubSeq(source, d.start_position + 2, d.position - 1)

\* delivery d is a string token that lexer_next scanned from the source
ScannedString(d) ==
  d.call = "next" /\ d.queued = 0 /\ d.type = "TOKEN_STRING"

\* C29: scratch-buffer bound and reset. The string-assembly index always lies
\* in 0..MAX_STRING_LENGTH-1, the buffer keeps its size, and the text of every
\* string token is made of the characters of its own literal alone, cut to
\* MAX_STRING_LENGTH-1 characters: nothing of an earlier scan is left in it,
\* however that scan ended.
C29_ScratchBuffer ==
  /\ lexer.string_buffer_pos \in 0..(MAX_STRING_LENGTH - 1)
  /\ Len(lexer.string_buffer) = MAX_STRING_LENGTH
  /\ \A i \in 1..Len(delivered) :
       (/\ ScannedString(delivered[i])
        /\ \A c \in {"\\", NUL} :
             \A j \in 1..Len(Literal(delivered[i])) :
               Literal(delivered[i])[j] # c)
         => delivered[i].value
              = Prefix(Literal(delivered[i]), MAX_STRING_LENGTH - 1)

\* a string has been scanned behind a literal that was too long
C29_StringAfterFailedScan ==
  /\ source = LongThenShort
  /\ Len(delivered) = 3
  /\ delivered[1].type = "TOKEN_ERROR"
  /\ delivered[1].error_msg = "Unclosed string"
  /\ ScannedString(delivered[3])
  /\ delivered[3].value = <<" ">>
  /\ lexer.string_buffer_pos = 1

\* the cursor and every character read stay within the source and its
\* terminator, and so does the scan that lexer_next starts here, which moves
\* the cursor forward unless it returns EOF
WithinSource ==
  /\ lexer.position \in 0..Len(source)
  /\ ~lexer.overread
  /\ lexer.lookahead_pos = 0 =>
       \E r \in {lexer_scan(lexer)} :
         /\ r.lexer.position \in lexer.position..Len(source)
         /\ ~r.lexer.overread
         /\ r.tok.type # "TOKEN_EOF" => r.lexer.position > lexer.position

\* C30: the lexer never reads past the terminator of the source. Over every
\* sequence of next, peek and skip calls the cursor stays in
\* 0..Len(source) and never moves back, no lookahead reads a character
\* behind the terminator, and every scan that returns a token other than EOF
\* moves the cursor forward.
C30_NeverPastTerminator ==
  /\ []WithinSource
  /\ [][lexer'.position >= lexer.position]_vars

\* a string that ends behind a backslash has been scanned to the terminator
C30_EscapeAtEndScanned ==
  /\ source = EscapeAtEnd
  /\ Len(delivered) = 1
  /\ delivered[1].call = "next"
  /\ delivered[1].type = "TOKEN_ERROR"
  /\ lexer.position = Len(source)

====
